---- MODULE Spec2Model ----
(***************************************************************************)
(* Dual-rate simulation scheduling of bevy_steam_audio                     *)
(* (crates/bevy_steam_audio/src): the control thread's systems             *)
(* (update_simulation, generate_probes, drain_to_remove,                   *)
(* init_audionimbus_sources, scene edits, create_simulator) interleaved    *)
(* with the detached worker tasks that run the reflections/pathing pass.   *)
(*                                                                         *)
(* Every create_simulator makes a new generation g: a new simulator behind *)
(* a new RwLock, a new completion flag, a new wake channel and a new       *)
(* worker task.  The worker of an older generation keeps its own Arc's and *)
(* runs until its receiver reports the sender dropped.                     *)
(* Time is counted in units of 10 ms.                                      *)
(***************************************************************************)
EXTENDS Naturals, FiniteSets, Sequences

\* ---------------------------------------------------------------- bounds
MaxGen == 2
TimerDuration == 2
MaxDt == 2
MaxEdits == 1
MaxQueue == 1
MaxPass == 3
MaxFrame == 4
MaxBlockFrames == 4
MaxSamples == 12
MaxEntities == 2
MaxResizes == 1
MaxWakes == 2
MaxValue == 2

Gens == 1..MaxGen

VARIABLES
    gen,            \* generation of the AudionimbusSimulator / AsyncSimulationSynchronization resources
    pc,             \* pc[g]: position of the worker task of generation g
    complete,       \* complete[g]: the AtomicBool of generation g
    chan,           \* chan[g]: wakes pending in the unbounded channel of generation g
    readers,        \* readers[g]: read guards held on the RwLock of generation g
    writer,         \* writer[g]: write guard held on the RwLock of generation g
    ctl,            \* position of the control thread (which system, and where in it)
    observed,       \* the flag as update_simulation last loaded it in the tick in progress
    result,         \* the Result the last control-thread system returned
    enabled,        \* SteamAudioEnabled.enabled
    timer,          \* SteamAudioEnabled.reflection_and_pathing_simulation_timer
    dt,             \* time.delta() of the tick in progress (0 between ticks)
    root,           \* SteamAudioRootScene: edits applied and edits committed
    passScene,      \* passScene[g]: committed scene the pass of worker g started on
    toSetup,        \* ToSetup: entities waiting for an audionimbus source
    toRemove,       \* SourcesToRemove
    probeRequest,   \* a GenerateProbes message is pending
    probeBatch,     \* the SteamAudioProbeBatch resource exists
    woken,          \* history: woken[g], a wake was sent to worker g
    storedSinceWake,\* history: worker g stored true since the last wake sent to it
    accum,          \* history: tick deltas accumulated since the last dispatch (capped)
    tickCount,      \* scenario observer: update_simulation runs begun
    directCount,    \* scenario observer: direct passes run
    wakeTicks,      \* scenario observer: the ticks in which a wake was sent
    deferredSeen,   \* scenario observer: a tick found the timer elapsed and the flag false
    srcOutputs,     \* cache observer: the pass whose outputs the AudionimbusSource holds (passes numbered as they end)
    published,      \* cache observer: the pass whose reflections/pathing outputs the node holds (0: none yet)
    frame_size,     \* audio node: the fixed frame size (FlatChannels::channel_capacity, input_buffer's capacity)
    max_block_frames,\* audio node: StreamInfo::max_block_frames
    input_buffer,   \* audio node: the samples of one input channel waiting for a full frame
    output_buffer,  \* audio node: the queued samples of one output channel
    capacity,       \* audio node: the capacity of the output channel's Vec
    started_draining,\* audio node: SteamAudioDecodeProcessor::started_draining
    status,         \* audio node: what the last process call returned
    fed,            \* audio node history: the number of input samples given to process so far
    emitted,        \* audio node history: the samples written to the output on OutputsModified calls
    to_setup,       \* per-entity: ToSetup with its entities told apart
    spawn_queue,    \* per-entity: the entities marked InSteamAudioMeshSpawnQueue
    next_id,        \* per-entity: the number of entities queued so far
    errors,         \* per-entity: the Local errors of the system that ran last
    inserted,       \* per-entity: the entities that were given their component
    run_result,     \* per-entity: the Result of the system that ran last
    run_parity,     \* per-entity history: run_parity[sys] flips with every run of the system
    late_passes,    \* teardown observer: late_passes[g], passes worker g began after its sender was dropped (counted up to 2)
    quality,        \* settings: the SteamAudioQuality resource
    prev_quality,   \* settings: the Local prev_quality of recreate_simulator_on_settings_change ("none": not run yet)
    quality_changed,\* settings: quality.is_changed() as the system's next run will see it
    trigger,        \* settings: the last run of the system triggered CreateSimulator
    settings_parity,\* settings history: flips with every run of the system
    effect_params,  \* processor: which of direct/reflection/pathing_effect_params of SteamAudioProcessor are Some
    processor,      \* processor: which processor owns the FixedProcessBlock ("encoder" or "reverb")
    reverb_source,  \* processor: SteamAudioReverbNodeProcessor::source, as the generation of the simulator it belongs to (0: None)
    audio_read,     \* processor history: where the worker stood when the audio thread last read a Source's outputs
    calls,          \* processor history: the slice lengths of the callback invocations of the last process call
    migrated,       \* src/simulation.rs: migrated[g], migrate_simulator has filled the simulator of generation g
    sim_changed,    \* src/simulation.rs: simulator.is_changed() as migrate_simulator's next run will see it
    tick_ops,       \* tick history: what the tick in progress (or the last tick) has done, in order
    passes_started, \* counter: passes_started[g], passes worker g has begun
    wakes_sent,     \* counter: wakes_sent[g], wakes sent to worker g
    resizes,        \* counter: FixedProcessBlock::resize calls so far
    probe_deferred, \* history: the pending GenerateProbes request has been written back at least once
    cached_params,  \* encoder: the outputs cached for each pass, 0 for None
    last_event      \* history: flags and outputs of the SimulationOutputEvent the last process call drained, flags {} for none

workerVars == <<pc, complete, chan, readers, writer, passScene, woken, storedSinceWake>>
ctlVars == <<gen, ctl, observed, result, enabled, timer, dt, accum>>
sceneVars == <<root, toSetup, toRemove, probeRequest, probeBatch>>
e2eVars == <<tickCount, directCount, wakeTicks, deferredSeen>>
cacheVars == <<srcOutputs, published>>
obsVars == <<e2eVars, cacheVars>>
nodeVars == <<frame_size, max_block_frames, input_buffer, output_buffer,
              capacity, started_draining, status, fed, emitted>>
\* the state outside the scheduler: the audio thread's node, and the queues of
\* the per-entity systems with their entities told apart
entityVars == <<to_setup, spawn_queue, next_id, errors, inserted, run_result, run_parity>>
\* the quality setting and the system that watches it
settingsVars == <<quality, prev_quality, quality_changed, trigger, settings_parity>>
\* the state of the processors around the FixedProcessBlock
eventVars == <<cached_params, last_event>>
procVars == <<processor, effect_params, reverb_source, audio_read, calls, eventVars>>
\* the variant of src/simulation.rs, and the histories of ticks and passes
migrateVars == <<migrated, sim_changed>>
countVars == <<passes_started, wakes_sent>>
laterVars == <<migrateVars, tick_ops, countVars, resizes, probe_deferred>>
sideVars == <<nodeVars, entityVars, settingsVars, late_passes, procVars, laterVars>>
vars == <<workerVars, ctlVars, sceneVars, obsVars, sideVars>>

Min(a, b) == IF a < b THEN a ELSE b
\* Worker g is inside run_reflections / run_pathing
InPass(g) == pc[g] = "pass"
Max(a, b) == IF a > b THEN a ELSE b

\* ------------------------------------------------------------ the timer
\* Timer::tick of a timer that stays finished until it is reset
TimerTick(t, d) ==
    IF t.finished THEN t
    ELSE LET e == t.elapsed + d IN
         IF e >= t.duration
         THEN [t EXCEPT !.elapsed = t.duration, !.finished = TRUE]
         ELSE [t EXCEPT !.elapsed = e]

TimerReset(t) == [t EXCEPT !.elapsed = 0, !.finished = FALSE]

NewTimer(d) == [elapsed |-> 0, finished |-> FALSE, duration |-> d]

\* reflection_and_pathing_simulation_timer = None: the user wants no
\* reflection and no pathing simulation
NoTimer == [elapsed |-> 0, finished |-> FALSE, duration |-> 0, none |-> TRUE]

\* ------------------------------------------------------------- RwLock
\* RwLock::try_write succeeds: no guard of any kind is held
TryWriteOk(g) == readers[g] = 0 /\ ~writer[g]
\* RwLock::try_read / read succeeds: no write guard is held
TryReadOk(g) == ~writer[g]

\* ----------------------------------------------------------------- Init
\* An audio node as construct_processor leaves it: empty buffers, the output
\* Vec reserved with its initial capacity
NodeInit(frame, max_block, reserved) ==
    /\ frame_size = frame
    /\ max_block_frames = max_block
    /\ input_buffer = <<>>
    /\ output_buffer = <<>>
    /\ capacity = reserved
    /\ started_draining = FALSE
    /\ status = "none"
    /\ fed = 0
    /\ emitted = <<>>

\* The scheduler right after the first create_simulator (stream start).
SchedulerInit(duration) ==
    /\ gen = 1
    /\ pc = [g \in Gens |-> IF g = 1 THEN "lock" ELSE "none"]
    /\ complete = [g \in Gens |-> FALSE]
    /\ chan = [g \in Gens |-> 0]
    /\ readers = [g \in Gens |-> 0]
    /\ writer = [g \in Gens |-> FALSE]
    /\ ctl = "idle"
    /\ observed = FALSE
    /\ result = "ok"
    /\ enabled = TRUE
    /\ timer = NewTimer(duration)
    /\ dt = 0
    /\ root = [pending |-> 0, committed |-> 0]
    /\ passScene = [g \in Gens |-> 0]
    /\ toSetup = 0
    /\ toRemove = 0
    /\ probeRequest = FALSE
    /\ probeBatch = FALSE
    /\ woken = [g \in Gens |-> FALSE]
    /\ storedSinceWake = [g \in Gens |-> FALSE]
    /\ accum = 0
    /\ tickCount = 0
    /\ directCount = 0
    /\ wakeTicks = {}
    /\ deferredSeen = FALSE
    /\ srcOutputs = 0
    /\ published = 0

\* Nothing queued, no system has run
EntityInit ==
    /\ to_setup = <<>>
    /\ spawn_queue = <<>>
    /\ next_id = 0
    /\ errors = <<>>
    /\ inserted = {}
    /\ run_result = "none"
    /\ run_parity = [sys \in {"sources", "meshes"} |-> FALSE]

\* SteamAudioQuality as the plugin inserts it; the system has not run, and a
\* resource just added reads as changed
Qualities == {"default", "other"}

SettingsInit ==
    /\ quality = "default"
    /\ prev_quality = "none"
    /\ quality_changed = TRUE
    /\ trigger = FALSE
    /\ settings_parity = FALSE
    /\ late_passes = [g \in Gens |-> 0]

\* The processors as construct_processor leaves them: no parameters and no
\* source received
ProcInit(kind) ==
    /\ processor = kind
    /\ effect_params = [direct |-> FALSE, reflections |-> FALSE, pathing |-> FALSE]
    /\ reverb_source = 0
    /\ audio_read = "none"
    /\ calls = <<>>
    /\ cached_params = [direct |-> 0, reflections |-> 0, pathing |-> 0]
    /\ last_event = [flags |-> {}, outputs |-> 0]

\* src/simulation.rs: the resource was just inserted and migrate_simulator
\* has not run; no tick, no pass, no wake yet
LaterInit ==
    /\ migrated = [g \in Gens |-> FALSE]
    /\ sim_changed = TRUE
    /\ tick_ops = <<>>
    /\ passes_started = [g \in Gens |-> 0]
    /\ wakes_sent = [g \in Gens |-> 0]
    /\ resizes = 0
    /\ probe_deferred = FALSE

InitWith(duration) ==
    /\ SchedulerInit(duration)
    /\ NodeInit(1, 1, 1)
    /\ EntityInit
    /\ SettingsInit
    /\ ProcInit("reverb")
    /\ LaterInit

Init == InitWith(TimerDuration)

\* ------------------------------------------------------- the worker task
\* Mutant of worker_lock: the flag is stored before the pass is run
worker_lock_store_first(g) ==
    /\ pc[g] = "lock"
    /\ TryReadOk(g)
    /\ readers' = [readers EXCEPT ![g] = @ + 1]
    /\ passScene' = [passScene EXCEPT ![g] = root.committed]
    /\ complete' = [complete EXCEPT ![g] = TRUE]
    /\ pc' = [pc EXCEPT ![g] = "pass"]
    /\ UNCHANGED <<chan, writer, woken, storedSinceWake>>
    /\ UNCHANGED <<ctlVars, sceneVars>>

\* simulator.read().unwrap(): blocks while a write guard is held
worker_lock(g) ==
    /\ pc[g] = "lock"
    /\ TryReadOk(g)
    /\ readers' = [readers EXCEPT ![g] = @ + 1]
    /\ passScene' = [passScene EXCEPT ![g] = root.committed]
    /\ pc' = [pc EXCEPT ![g] = "pass"]
    /\ UNCHANGED <<complete, chan, writer, woken, storedSinceWake>>
    /\ UNCHANGED <<ctlVars, sceneVars>>

\* Mutant of worker_pass: the block around the guard is lost, so the guard
\* outlives the pass and is still held at the store and in recv
worker_pass_guard_kept(g) ==
    /\ pc[g] = "pass"
    /\ passScene' = [passScene EXCEPT ![g] = 0]
    /\ pc' = [pc EXCEPT ![g] = "store"]
    /\ UNCHANGED <<complete, chan, readers, writer, woken, storedSinceWake>>
    /\ UNCHANGED <<ctlVars, sceneVars>>

\* run_reflections(); run_pathing(); the read guard is dropped at the block's end
worker_pass(g) ==
    /\ pc[g] = "pass"
    /\ readers' = [readers EXCEPT ![g] = @ - 1]
    /\ passScene' = [passScene EXCEPT ![g] = 0]
    /\ pc' = [pc EXCEPT ![g] = "store"]
    /\ UNCHANGED <<complete, chan, writer, woken, storedSinceWake>>
    /\ UNCHANGED <<ctlVars, sceneVars>>

\* Mutant of worker_store: the store is lost and the worker goes on to recv
worker_store_lost(g) ==
    /\ pc[g] = "store"
    /\ pc' = [pc EXCEPT ![g] = "recv"]
    /\ UNCHANGED <<complete, storedSinceWake, chan, readers, writer, passScene, woken>>
    /\ UNCHANGED <<ctlVars, sceneVars>>

\* simulation_complete_inner.store(true, Ordering::Relaxed), after the read
\* guard is gone.  Steps interleave: the store is taken to become visible
\* after the guard's release, in program order.
worker_store(g) ==
    /\ pc[g] = "store"
    /\ complete' = [complete EXCEPT ![g] = TRUE]
    /\ storedSinceWake' = [storedSinceWake EXCEPT ![g] = TRUE]
    /\ pc' = [pc EXCEPT ![g] = "recv"]
    /\ UNCHANGED <<chan, readers, writer, passScene, woken>>
    /\ UNCHANGED <<ctlVars, sceneVars>>

\* Mutant of worker_recv: the error of a disconnected channel is ignored and
\* the loop goes on
worker_recv_ignore_disconnect(g) ==
    /\ pc[g] = "recv"
    /\ \/ /\ chan[g] > 0
          /\ chan' = [chan EXCEPT ![g] = @ - 1]
          /\ pc' = [pc EXCEPT ![g] = "lock"]
       \/ /\ chan[g] = 0
          /\ g # gen
          /\ pc' = [pc EXCEPT ![g] = "lock"]
          /\ UNCHANGED chan
    /\ UNCHANGED <<complete, readers, writer, passScene, woken, storedSinceWake>>
    /\ UNCHANGED <<ctlVars, sceneVars>>

\* rx.recv(): a pending wake is delivered; with none pending it blocks while
\* the sender lives and fails once the sender has been dropped by a rebuild
worker_recv(g) ==
    /\ pc[g] = "recv"
    /\ \/ /\ chan[g] > 0
          /\ chan' = [chan EXCEPT ![g] = @ - 1]
          /\ pc' = [pc EXCEPT ![g] = "lock"]
       \/ /\ chan[g] = 0
          /\ g # gen
          /\ pc' = [pc EXCEPT ![g] = "done"]
          /\ UNCHANGED chan
    /\ UNCHANGED <<complete, readers, writer, passScene, woken, storedSinceWake>>
    /\ UNCHANGED <<ctlVars, sceneVars>>

\* ------------------------------------------------------ create_simulator
\* The CreateSimulator observer (stream restart or a quality change): a new
\* simulator, flag, channel and worker; inserting the new
\* AsyncSimulationSynchronization drops the old sender.  The old worker is
\* detached and is not waited for.
create_simulator ==
    /\ ctl = "idle"
    /\ gen < MaxGen
    /\ gen' = gen + 1
    /\ pc' = [pc EXCEPT ![gen + 1] = "lock"]
    /\ toRemove' = 0
    /\ result' = "ok"
    /\ UNCHANGED <<complete, chan, readers, writer, passScene, woken, storedSinceWake>>
    /\ UNCHANGED <<ctl, observed, enabled, timer, dt, accum>>
    /\ UNCHANGED <<root, toSetup, probeRequest, probeBatch>>

\* -------------------------------------------------------- update_simulation
\* The first load of the flag.  A disabled tick returns at once.
update_simulation_begin(d) ==
    /\ ctl = "idle"
    /\ accum' = Min(accum + d, timer.duration)
    /\ IF ~enabled
       THEN /\ result' = "ok"
            /\ UNCHANGED <<ctl, observed, dt>>
       ELSE /\ dt' = d
            /\ observed' = complete[gen]
            /\ ctl' = IF complete[gen] THEN "rootCommit" ELSE "tryRead"
            /\ UNCHANGED result
    /\ UNCHANGED <<gen, enabled, timer>>
    /\ UNCHANGED <<workerVars, sceneVars>>

\* root.commit(): the edits applied so far become visible to the simulation
update_simulation_root_commit ==
    /\ ctl = "rootCommit"
    /\ root' = [root EXCEPT !.committed = root.pending]
    /\ ctl' = "tryWrite"
    /\ UNCHANGED <<gen, observed, result, enabled, timer, dt, accum>>
    /\ UNCHANGED <<toSetup, toRemove, probeRequest, probeBatch>>
    /\ UNCHANGED workerVars

\* simulator.try_write().map_err(..)?: an error ends the tick
update_simulation_try_write ==
    /\ ctl = "tryWrite"
    /\ IF TryWriteOk(gen)
       THEN /\ writer' = [writer EXCEPT ![gen] = TRUE]
            /\ ctl' = "simCommit"
            /\ UNCHANGED result
       ELSE /\ result' = "err"
            /\ ctl' = "idle"
            /\ UNCHANGED writer
    /\ observed' = (observed /\ ctl' # "idle")
    /\ dt' = IF ctl' = "idle" THEN 0 ELSE dt
    /\ UNCHANGED <<gen, enabled, timer, accum>>
    /\ UNCHANGED <<pc, complete, chan, readers, passScene, woken, storedSinceWake>>
    /\ UNCHANGED sceneVars

\* .commit() under the write guard, which is dropped with the statement
update_simulation_sim_commit ==
    /\ ctl = "simCommit"
    /\ writer' = [writer EXCEPT ![gen] = FALSE]
    /\ ctl' = "tryRead"
    /\ UNCHANGED <<gen, observed, result, enabled, timer, dt, accum>>
    /\ UNCHANGED <<pc, complete, chan, readers, passScene, woken, storedSinceWake>>
    /\ UNCHANGED sceneVars

\* simulator.try_read().map_err(..)?: the guard lives to the end of the tick
update_simulation_try_read ==
    /\ ctl = "tryRead"
    /\ IF TryReadOk(gen)
       THEN /\ readers' = [readers EXCEPT ![gen] = @ + 1]
            /\ ctl' = "direct"
            /\ UNCHANGED result
       ELSE /\ result' = "err"
            /\ ctl' = "idle"
            /\ UNCHANGED readers
    /\ observed' = (observed /\ ctl' # "idle")
    /\ dt' = IF ctl' = "idle" THEN 0 ELSE dt
    /\ UNCHANGED <<gen, enabled, timer, accum>>
    /\ UNCHANGED <<pc, complete, chan, writer, passScene, woken, storedSinceWake>>
    /\ UNCHANGED sceneVars

\* Mutant of update_simulation_direct: the is_finished() early return is lost
update_simulation_direct_no_throttle ==
    /\ ctl = "direct"
    /\ timer' = TimerTick(timer, dt)
    /\ ctl' = "load2"
    /\ UNCHANGED <<readers, result>>
    /\ UNCHANGED <<gen, observed, enabled, dt, accum>>
    /\ UNCHANGED <<pc, complete, chan, writer, passScene, woken, storedSinceWake>>
    /\ UNCHANGED sceneVars

\* run_direct(), the DIRECT output events, then the timer: without a timer
\* the tick returns Ok; else timer.tick(delta) and the is_finished() test: a
\* tick whose timer has not elapsed returns Ok
update_simulation_direct ==
    /\ ctl = "direct"
    /\ timer' = IF timer = NoTimer THEN timer ELSE TimerTick(timer, dt)
    /\ IF ~timer'.finished
       THEN /\ readers' = [readers EXCEPT ![gen] = @ - 1]
            /\ result' = "ok"
            /\ ctl' = "idle"
       ELSE /\ ctl' = "load2"
            /\ UNCHANGED <<readers, result>>
    /\ observed' = (observed /\ ctl' # "idle")
    /\ dt' = IF ctl' = "idle" THEN 0 ELSE dt
    /\ UNCHANGED <<gen, enabled, accum>>
    /\ UNCHANGED <<pc, complete, chan, writer, passScene, woken, storedSinceWake>>
    /\ UNCHANGED sceneVars

\* Mutant of update_simulation_load2: the flag is loaded but a busy worker
\* does not end the tick
update_simulation_load2_unchecked ==
    /\ ctl = "load2"
    /\ observed' = complete[gen]
    /\ ctl' = "dispatch"
    /\ UNCHANGED <<readers, result>>
    /\ UNCHANGED <<gen, enabled, timer, dt, accum>>
    /\ UNCHANGED <<pc, complete, chan, writer, passScene, woken, storedSinceWake>>
    /\ UNCHANGED sceneVars

\* Mutant of update_simulation_load2: a busy worker ends the tick and the
\* timer is reset, so the elapsed period is dropped
update_simulation_load2_reset_on_busy ==
    /\ ctl = "load2"
    /\ observed' = complete[gen]
    /\ IF ~complete[gen]
       THEN /\ readers' = [readers EXCEPT ![gen] = @ - 1]
            /\ result' = "ok"
            /\ timer' = TimerReset(timer)
            /\ ctl' = "idle"
            /\ dt' = 0
       ELSE /\ ctl' = "dispatch"
            /\ UNCHANGED <<readers, result, timer, dt>>
    /\ UNCHANGED <<gen, enabled, accum>>
    /\ UNCHANGED <<pc, complete, chan, writer, passScene, woken, storedSinceWake>>
    /\ UNCHANGED sceneVars

\* The second load of the flag: with the worker still busy the tick returns Ok
\* and leaves the timer as it is
update_simulation_load2 ==
    /\ ctl = "load2"
    /\ observed' = complete[gen]
    /\ IF ~complete[gen]
       THEN /\ readers' = [readers EXCEPT ![gen] = @ - 1]
            /\ result' = "ok"
            /\ ctl' = "idle"
            /\ dt' = 0
       ELSE /\ ctl' = "dispatch"
            /\ UNCHANGED <<readers, result, dt>>
    /\ UNCHANGED <<gen, enabled, timer, accum>>
    /\ UNCHANGED <<pc, complete, chan, writer, passScene, woken, storedSinceWake>>
    /\ UNCHANGED sceneVars

\* Mutant of update_simulation_dispatch: complete.store(false) is lost
update_simulation_dispatch_no_clear ==
    /\ ctl = "dispatch"
    /\ timer' = TimerReset(timer)
    /\ chan' = [chan EXCEPT ![gen] = @ + 1]
    /\ woken' = [woken EXCEPT ![gen] = TRUE]
    /\ storedSinceWake' = [storedSinceWake EXCEPT ![gen] = FALSE]
    /\ result' = "ok"
    /\ accum' = 0
    /\ readers' = [readers EXCEPT ![gen] = @ - 1]
    /\ ctl' = "idle"
    /\ observed' = FALSE
    /\ dt' = 0
    /\ UNCHANGED <<gen, enabled>>
    /\ UNCHANGED <<pc, complete, writer, passScene>>
    /\ UNCHANGED sceneVars

\* Mutant of update_simulation_dispatch: timer.reset() is lost
update_simulation_dispatch_no_reset ==
    /\ ctl = "dispatch"
    /\ complete' = [complete EXCEPT ![gen] = FALSE]
    /\ chan' = [chan EXCEPT ![gen] = @ + 1]
    /\ woken' = [woken EXCEPT ![gen] = TRUE]
    /\ storedSinceWake' = [storedSinceWake EXCEPT ![gen] = FALSE]
    /\ result' = "ok"
    /\ accum' = 0
    /\ readers' = [readers EXCEPT ![gen] = @ - 1]
    /\ ctl' = "idle"
    /\ observed' = FALSE
    /\ dt' = 0
    /\ UNCHANGED <<gen, enabled, timer>>
    /\ UNCHANGED <<pc, writer, passScene>>
    /\ UNCHANGED sceneVars

\* Publish the previous pass's outputs, set the new inputs, then
\* complete.store(false); timer.reset(); sender.send(())?
update_simulation_dispatch ==
    /\ ctl = "dispatch"
    /\ complete' = [complete EXCEPT ![gen] = FALSE]
    /\ timer' = TimerReset(timer)
    /\ IF pc[gen] = "done"
       THEN /\ result' = "err"
            /\ UNCHANGED <<chan, woken, storedSinceWake>>
       ELSE /\ chan' = [chan EXCEPT ![gen] = @ + 1]
            /\ woken' = [woken EXCEPT ![gen] = TRUE]
            /\ storedSinceWake' = [storedSinceWake EXCEPT ![gen] = FALSE]
            /\ result' = "ok"
    /\ accum' = 0
    /\ readers' = [readers EXCEPT ![gen] = @ - 1]
    /\ ctl' = "idle"
    /\ observed' = FALSE
    /\ dt' = 0
    /\ UNCHANGED <<gen, enabled>>
    /\ UNCHANGED <<pc, writer, passScene>>
    /\ UNCHANGED sceneVars

\* The user sets SteamAudioEnabled.reflection_and_pathing_simulation_timer
\* to None or to a new timer
set_timer ==
    /\ ctl = "idle"
    /\ timer' = IF timer = NoTimer THEN NewTimer(TimerDuration) ELSE NoTimer
    /\ accum' = 0
    /\ UNCHANGED <<gen, ctl, observed, result, enabled, dt>>
    /\ UNCHANGED <<workerVars, sceneVars>>

\* The user switches SteamAudioEnabled.enabled
set_enabled ==
    /\ ctl = "idle"
    /\ enabled' = ~enabled
    /\ UNCHANGED <<gen, ctl, observed, result, timer, dt, accum>>
    /\ UNCHANGED <<workerVars, sceneVars>>

\* ------------------------------------------------------------ scene edits
\* update_transforms, spawn_new_steam_audio_meshes and the mesh removal
\* observers: add_/remove_static_mesh, add_/remove_instanced_mesh and
\* update_instanced_mesh_transform on the root scene, none of them followed
\* by root.commit()
update_transforms ==
    /\ ctl = "idle"
    /\ root.pending < MaxEdits
    /\ root' = [root EXCEPT !.pending = @ + 1]
    /\ UNCHANGED <<toSetup, toRemove, probeRequest, probeBatch>>
    /\ UNCHANGED <<workerVars, ctlVars>>

\* ---------------------------------------------------------------- sources
\* queue_audionimbus_source_init: an entity is queued for a source
queue_audionimbus_source_init ==
    /\ ctl = "idle"
    /\ toSetup < MaxQueue
    /\ toSetup' = toSetup + 1
    /\ UNCHANGED <<root, toRemove, probeRequest, probeBatch>>
    /\ UNCHANGED <<workerVars, ctlVars>>

\* init_audionimbus_sources up to the lock: an empty queue or a failed
\* try_read returns Ok
init_audionimbus_sources_begin ==
    /\ ctl = "idle"
    /\ toSetup > 0
    /\ result' = "ok"
    /\ IF TryReadOk(gen)
       THEN /\ readers' = [readers EXCEPT ![gen] = @ + 1]
            /\ ctl' = "addSource"
       ELSE UNCHANGED <<readers, ctl>>
    /\ UNCHANGED <<gen, observed, enabled, timer, dt, accum>>
    /\ UNCHANGED <<pc, complete, chan, writer, passScene, woken, storedSinceWake>>
    /\ UNCHANGED sceneVars

\* Source::try_new and simulator.add_source for every queued entity, under
\* the read guard
init_audionimbus_sources_add ==
    /\ ctl = "addSource"
    /\ toSetup' = 0
    /\ readers' = [readers EXCEPT ![gen] = @ - 1]
    /\ ctl' = "idle"
    /\ UNCHANGED <<gen, observed, result, enabled, timer, dt, accum>>
    /\ UNCHANGED <<pc, complete, chan, writer, passScene, woken, storedSinceWake>>
    /\ UNCHANGED <<root, toRemove, probeRequest, probeBatch>>

\* remove_steam_audio_source: a removed component's source is queued
remove_steam_audio_source ==
    /\ ctl = "idle"
    /\ toRemove < MaxQueue
    /\ toRemove' = toRemove + 1
    /\ UNCHANGED <<root, toSetup, probeRequest, probeBatch>>
    /\ UNCHANGED <<workerVars, ctlVars>>

\* drain_to_remove up to the lock: an empty queue or a failed try_read returns
drain_to_remove_begin ==
    /\ ctl = "idle"
    /\ toRemove > 0
    /\ IF TryReadOk(gen)
       THEN /\ readers' = [readers EXCEPT ![gen] = @ + 1]
            /\ ctl' = "removeSource"
       ELSE UNCHANGED <<readers, ctl>>
    /\ UNCHANGED <<gen, observed, result, enabled, timer, dt, accum>>
    /\ UNCHANGED <<pc, complete, chan, writer, passScene, woken, storedSinceWake>>
    /\ UNCHANGED sceneVars

\* simulator.remove_source for every queued source, under the read guard
drain_to_remove_remove ==
    /\ ctl = "removeSource"
    /\ toRemove' = 0
    /\ readers' = [readers EXCEPT ![gen] = @ - 1]
    /\ ctl' = "idle"
    /\ UNCHANGED <<gen, observed, result, enabled, timer, dt, accum>>
    /\ UNCHANGED <<pc, complete, chan, writer, passScene, woken, storedSinceWake>>
    /\ UNCHANGED <<root, toSetup, probeRequest, probeBatch>>

\* ----------------------------------------------------------------- probes
\* The user writes a GenerateProbes message
write_generate_probes ==
    /\ ctl = "idle"
    /\ ~probeRequest
    /\ probeRequest' = TRUE
    /\ UNCHANGED <<root, toSetup, toRemove, probeBatch>>
    /\ UNCHANGED <<workerVars, ctlVars>>

\* Mutant of generate_probes_begin: the guard is taken whenever a read guard
\* could be taken
generate_probes_begin_try_read ==
    /\ ctl = "idle"
    /\ probeRequest
    /\ result' = "ok"
    /\ IF TryReadOk(gen)
       THEN /\ writer' = [writer EXCEPT ![gen] = TRUE]
            /\ probeRequest' = FALSE
            /\ ctl' = "probeCommit"
       ELSE UNCHANGED <<writer, probeRequest, ctl>>
    /\ UNCHANGED <<gen, observed, enabled, timer, dt, accum>>
    /\ UNCHANGED <<pc, complete, chan, readers, passScene, woken, storedSinceWake>>
    /\ UNCHANGED <<root, toSetup, toRemove, probeBatch>>

\* Mutant of generate_probes_begin: a failed try_write returns Ok without
\* writing the message back
generate_probes_begin_no_requeue ==
    /\ ctl = "idle"
    /\ probeRequest
    /\ result' = "ok"
    /\ probeRequest' = FALSE
    /\ IF TryWriteOk(gen)
       THEN /\ writer' = [writer EXCEPT ![gen] = TRUE]
            /\ ctl' = "probeCommit"
       ELSE UNCHANGED <<writer, ctl>>
    /\ UNCHANGED <<gen, observed, enabled, timer, dt, accum>>
    /\ UNCHANGED <<pc, complete, chan, readers, passScene, woken, storedSinceWake>>
    /\ UNCHANGED <<root, toSetup, toRemove, probeBatch>>

\* generate_probes up to the lock: the message is drained; a failed
\* try_write writes it back and returns Ok
generate_probes_begin ==
    /\ ctl = "idle"
    /\ probeRequest
    /\ result' = "ok"
    /\ IF TryWriteOk(gen)
       THEN /\ writer' = [writer EXCEPT ![gen] = TRUE]
            /\ probeRequest' = FALSE
            /\ ctl' = "probeCommit"
       ELSE UNCHANGED <<writer, probeRequest, ctl>>
    /\ UNCHANGED <<gen, observed, enabled, timer, dt, accum>>
    /\ UNCHANGED <<pc, complete, chan, readers, passScene, woken, storedSinceWake>>
    /\ UNCHANGED <<root, toSetup, toRemove, probeBatch>>

\* Under the write guard: an empty probe array returns Ok and changes
\* nothing; otherwise remove_probe_batch, add_probe_batch, simulator.commit()
\* and the new SteamAudioProbeBatch resource
generate_probes_commit ==
    /\ ctl = "probeCommit"
    /\ \E empty \in BOOLEAN :
          probeBatch' = IF empty THEN probeBatch ELSE TRUE
    /\ writer' = [writer EXCEPT ![gen] = FALSE]
    /\ ctl' = "idle"
    /\ UNCHANGED <<gen, observed, result, enabled, timer, dt, accum>>
    /\ UNCHANGED <<pc, complete, chan, readers, passScene, woken, storedSinceWake>>
    /\ UNCHANGED <<root, toSetup, toRemove, probeRequest>>

\* ------------------------------------------------------------------- Next
\* The scenario observers belong to the end-to-end scenario (SpecE2E) and stand
\* still everywhere else.
WorkerNext ==
    \/ \E g \in Gens : worker_lock(g) /\ UNCHANGED <<obsVars, sideVars>>
    \/ \E g \in Gens : worker_pass(g) /\ UNCHANGED <<obsVars, sideVars>>
    \/ \E g \in Gens : worker_store(g) /\ UNCHANGED <<obsVars, sideVars>>
    \/ \E g \in Gens : worker_recv(g) /\ UNCHANGED <<obsVars, sideVars>>

UpdateNext ==
    \/ \E d \in 1..MaxDt : update_simulation_begin(d) /\ UNCHANGED <<obsVars, sideVars>>
    \/ update_simulation_root_commit /\ UNCHANGED <<obsVars, sideVars>>
    \/ update_simulation_try_write /\ UNCHANGED <<obsVars, sideVars>>
    \/ update_simulation_sim_commit /\ UNCHANGED <<obsVars, sideVars>>
    \/ update_simulation_try_read /\ UNCHANGED <<obsVars, sideVars>>
    \/ update_simulation_direct /\ UNCHANGED <<obsVars, sideVars>>
    \/ update_simulation_load2 /\ UNCHANGED <<obsVars, sideVars>>
    \/ update_simulation_dispatch /\ UNCHANGED <<obsVars, sideVars>>

RebuildNext == create_simulator /\ UNCHANGED <<obsVars, sideVars>>

SettingsNext == set_enabled /\ UNCHANGED <<obsVars, sideVars>>

SceneNext == update_transforms /\ UNCHANGED <<obsVars, sideVars>>

SourcesNext ==
    \/ queue_audionimbus_source_init /\ UNCHANGED <<obsVars, sideVars>>
    \/ init_audionimbus_sources_begin /\ UNCHANGED <<obsVars, sideVars>>
    \/ init_audionimbus_sources_add /\ UNCHANGED <<obsVars, sideVars>>
    \/ remove_steam_audio_source /\ UNCHANGED <<obsVars, sideVars>>
    \/ drain_to_remove_begin /\ UNCHANGED <<obsVars, sideVars>>
    \/ drain_to_remove_remove /\ UNCHANGED <<obsVars, sideVars>>

ProbesNext ==
    \/ write_generate_probes /\ UNCHANGED <<obsVars, sideVars>>
    \/ generate_probes_begin /\ UNCHANGED <<obsVars, sideVars>>
    \/ generate_probes_commit /\ UNCHANGED <<obsVars, sideVars>>

\* Every system and the workers
Next ==
    \/ WorkerNext
    \/ UpdateNext
    \/ RebuildNext
    \/ SettingsNext
    \/ SceneNext
    \/ SourcesNext
    \/ ProbesNext

Spec == Init /\ [][Next]_vars

\* The scheduler, the workers, rebuilds and scene edits: the systems that
\* touch the flag, the wake channel, the timer and the root scene
NextSched ==
    \/ WorkerNext
    \/ UpdateNext
    \/ RebuildNext
    \/ SettingsNext
    \/ SceneNext

SpecSched == Init /\ [][NextSched]_vars

\* The scheduler, the workers, rebuilds and the systems that lock the
\* simulator
NextLocks ==
    \/ WorkerNext
    \/ UpdateNext
    \/ RebuildNext
    \/ SourcesNext
    \/ ProbesNext

SpecLocks == Init /\ [][NextLocks]_vars

\* --------------------------------------------------- the fair specification
\* Ticks continue and the worker tasks are scheduled: every tick of
\* PostUpdate runs update_simulation to its end, and the task pool runs a
\* worker whenever it can take a step.  Rebuilds and scene edits may happen.
UpdateStep ==
    \/ \E d \in 1..MaxDt : update_simulation_begin(d)
    \/ update_simulation_root_commit
    \/ update_simulation_try_write
    \/ update_simulation_sim_commit
    \/ update_simulation_try_read
    \/ update_simulation_direct
    \/ update_simulation_load2
    \/ update_simulation_dispatch

WorkerStep(g) ==
    \/ worker_lock(g)
    \/ worker_pass(g)
    \/ worker_store(g)
    \/ worker_recv(g)

NextFair ==
    \/ WorkerNext
    \/ UpdateNext
    \/ RebuildNext
    \/ SceneNext

SpecFair ==
    /\ Init
    /\ [][NextFair]_vars
    /\ WF_vars(UpdateStep /\ UNCHANGED <<obsVars, sideVars>>)
    /\ \A g \in Gens : WF_vars(WorkerStep(g) /\ UNCHANGED <<obsVars, sideVars>>)

\* ------------------------------------------------- the end-to-end scenario
\* One source, the timer's period 500 ms (50 units), ticks of 10 ms (1 unit),
\* 100 ticks, no rebuild.  The observers count what the scenario asks about.
InitE2E == InitWith(50)

NextE2E ==
    \/ \E g \in Gens : worker_lock(g) /\ UNCHANGED <<obsVars, sideVars>>
    \/ \E g \in Gens : worker_pass(g) /\ UNCHANGED <<obsVars, sideVars>>
    \/ \E g \in Gens : worker_store(g) /\ UNCHANGED <<obsVars, sideVars>>
    \/ \E g \in Gens : worker_recv(g) /\ UNCHANGED <<obsVars, sideVars>>
    \/ /\ tickCount < 100
       /\ update_simulation_begin(1)
       /\ tickCount' = tickCount + 1
       /\ UNCHANGED <<directCount, wakeTicks, deferredSeen>>
       /\ UNCHANGED <<cacheVars, sideVars>>
    \/ update_simulation_root_commit /\ UNCHANGED <<obsVars, sideVars>>
    \/ update_simulation_try_write /\ UNCHANGED <<obsVars, sideVars>>
    \/ update_simulation_sim_commit /\ UNCHANGED <<obsVars, sideVars>>
    \/ update_simulation_try_read /\ UNCHANGED <<obsVars, sideVars>>
    \/ /\ update_simulation_direct
       /\ directCount' = directCount + 1
       /\ UNCHANGED <<tickCount, wakeTicks, deferredSeen>>
       /\ UNCHANGED <<cacheVars, sideVars>>
    \/ /\ update_simulation_load2
       /\ deferredSeen' = (deferredSeen \/ ~complete[gen])
       /\ UNCHANGED <<tickCount, directCount, wakeTicks>>
       /\ UNCHANGED <<cacheVars, sideVars>>
    \/ /\ update_simulation_dispatch
       /\ wakeTicks' = IF chan'[gen] > chan[gen] THEN wakeTicks \cup {tickCount}
                                                  ELSE wakeTicks
       /\ UNCHANGED <<tickCount, directCount, deferredSeen>>
       /\ UNCHANGED <<cacheVars, sideVars>>

SpecE2E == InitE2E /\ [][NextE2E]_vars

\* ------------------------------------------- the variant of src/simulation.rs
\* In src/simulation.rs the worker runs its pass under the write guard and
\* update_simulation takes its guards with the blocking write() and read().
\* Everything else of the worker and of update_simulation is as above.

\* simulator.write().unwrap(): blocks while any guard is held
worker_lock_write(g) ==
    /\ pc[g] = "lock"
    /\ TryWriteOk(g)
    /\ writer' = [writer EXCEPT ![g] = TRUE]
    /\ passScene' = [passScene EXCEPT ![g] = root.committed]
    /\ pc' = [pc EXCEPT ![g] = "pass"]
    /\ UNCHANGED <<complete, chan, readers, woken, storedSinceWake>>
    /\ UNCHANGED <<ctlVars, sceneVars>>

\* Mutant of worker_pass_write: the write guard outlives the block and is
\* still held while the worker waits in recv
worker_pass_write_guard_kept(g) ==
    /\ pc[g] = "pass"
    /\ passScene' = [passScene EXCEPT ![g] = 0]
    /\ pc' = [pc EXCEPT ![g] = "store"]
    /\ UNCHANGED <<complete, chan, readers, writer, woken, storedSinceWake>>
    /\ UNCHANGED <<ctlVars, sceneVars>>

\* run_reflections(); run_pathing(); the write guard is dropped at the block's end
worker_pass_write(g) ==
    /\ pc[g] = "pass"
    /\ writer' = [writer EXCEPT ![g] = FALSE]
    /\ passScene' = [passScene EXCEPT ![g] = 0]
    /\ pc' = [pc EXCEPT ![g] = "store"]
    /\ UNCHANGED <<complete, chan, readers, woken, storedSinceWake>>
    /\ UNCHANGED <<ctlVars, sceneVars>>

\* simulator.write().unwrap().commit(): the control thread waits for the lock
update_simulation_write ==
    /\ ctl = "tryWrite"
    /\ TryWriteOk(gen)
    /\ writer' = [writer EXCEPT ![gen] = TRUE]
    /\ ctl' = "simCommit"
    /\ UNCHANGED <<gen, observed, result, enabled, timer, dt, accum>>
    /\ UNCHANGED <<pc, complete, chan, readers, passScene, woken, storedSinceWake>>
    /\ UNCHANGED sceneVars

\* simulator.read().unwrap(): the control thread waits while a write guard is held
update_simulation_read ==
    /\ ctl = "tryRead"
    /\ TryReadOk(gen)
    /\ readers' = [readers EXCEPT ![gen] = @ + 1]
    /\ ctl' = "direct"
    /\ UNCHANGED <<gen, observed, result, enabled, timer, dt, accum>>
    /\ UNCHANGED <<pc, complete, chan, writer, passScene, woken, storedSinceWake>>
    /\ UNCHANGED sceneVars

NextWriteLock ==
    \/ \E g \in Gens : worker_lock_write(g) /\ UNCHANGED <<obsVars, sideVars>>
    \/ \E g \in Gens : worker_pass_write(g) /\ UNCHANGED <<obsVars, sideVars>>
    \/ \E g \in Gens : worker_store(g) /\ UNCHANGED <<obsVars, sideVars>>
    \/ \E g \in Gens : worker_recv(g) /\ UNCHANGED <<obsVars, sideVars>>
    \/ \E d \in 1..MaxDt : update_simulation_begin(d) /\ UNCHANGED <<obsVars, sideVars>>
    \/ update_simulation_root_commit /\ UNCHANGED <<obsVars, sideVars>>
    \/ update_simulation_write /\ UNCHANGED <<obsVars, sideVars>>
    \/ update_simulation_sim_commit /\ UNCHANGED <<obsVars, sideVars>>
    \/ update_simulation_read /\ UNCHANGED <<obsVars, sideVars>>
    \/ update_simulation_direct /\ UNCHANGED <<obsVars, sideVars>>
    \/ update_simulation_load2 /\ UNCHANGED <<obsVars, sideVars>>
    \/ update_simulation_dispatch /\ UNCHANGED <<obsVars, sideVars>>
    \/ RebuildNext
    \/ SettingsNext

SpecWriteLock == Init /\ [][NextWriteLock]_vars

\* create_simulator of src/simulation.rs: the new simulator holds the root
\* scene and the listener source only; the resource is inserted (and reads
\* as changed) and the worker is spawned at once
create_simulator_then_migrate ==
    /\ create_simulator
    /\ sim_changed' = TRUE
    /\ UNCHANGED migrated
    /\ UNCHANGED <<obsVars, nodeVars, entityVars, settingsVars, late_passes, procVars,
                   tick_ops, countVars, resizes, probe_deferred>>

\* migrate_simulator, a system of PostUpdate: returns unless the resource
\* has changed; otherwise simulator.write().unwrap() (the control thread
\* waits for the lock), add_source for every source, set_scene,
\* add_probe_batch, commit
migrate_simulator ==
    /\ ctl = "idle"
    /\ sim_changed' = FALSE
    /\ IF sim_changed
       THEN /\ TryWriteOk(gen)
            /\ migrated' = [migrated EXCEPT ![gen] = TRUE]
       ELSE UNCHANGED migrated
    /\ UNCHANGED <<workerVars, ctlVars, sceneVars>>
    /\ UNCHANGED <<obsVars, nodeVars, entityVars, settingsVars, late_passes, procVars,
                   tick_ops, countVars, resizes, probe_deferred>>

NextMigrate ==
    \/ \E g \in Gens : worker_lock_write(g) /\ UNCHANGED <<obsVars, sideVars>>
    \/ \E g \in Gens : worker_pass_write(g) /\ UNCHANGED <<obsVars, sideVars>>
    \/ \E g \in Gens : worker_store(g) /\ UNCHANGED <<obsVars, sideVars>>
    \/ \E g \in Gens : worker_recv(g) /\ UNCHANGED <<obsVars, sideVars>>
    \/ \E d \in 1..MaxDt : update_simulation_begin(d) /\ UNCHANGED <<obsVars, sideVars>>
    \/ update_simulation_root_commit /\ UNCHANGED <<obsVars, sideVars>>
    \/ update_simulation_write /\ UNCHANGED <<obsVars, sideVars>>
    \/ update_simulation_sim_commit /\ UNCHANGED <<obsVars, sideVars>>
    \/ update_simulation_read /\ UNCHANGED <<obsVars, sideVars>>
    \/ update_simulation_direct /\ UNCHANGED <<obsVars, sideVars>>
    \/ update_simulation_load2 /\ UNCHANGED <<obsVars, sideVars>>
    \/ update_simulation_dispatch /\ UNCHANGED <<obsVars, sideVars>>
    \/ create_simulator_then_migrate
    \/ migrate_simulator

SpecMigrate == Init /\ [][NextMigrate]_vars

\* ------------------------------------------------- the output cache
\* What the source holds and what the node holds.  A pass leaves its outputs
\* in the AudionimbusSource when it ends; the dispatching tick reads them with
\* get_outputs and pushes them to the node as a SimulationOutputEvent.  A
\* get_outputs that runs while some worker is inside a pass is a racing read:
\* it yields the outputs held or those the pass in flight is writing.
NextCache ==
    \/ \E g \in Gens : worker_lock(g) /\ UNCHANGED <<obsVars, sideVars>>
    \/ \E g \in Gens :
          /\ worker_pass(g)
          /\ srcOutputs < MaxPass
          /\ srcOutputs' = srcOutputs + 1
          /\ UNCHANGED <<published, e2eVars, sideVars>>
    \/ \E g \in Gens : worker_store(g) /\ UNCHANGED <<obsVars, sideVars>>
    \/ \E g \in Gens : worker_recv(g) /\ UNCHANGED <<obsVars, sideVars>>
    \/ \E d \in 1..MaxDt : update_simulation_begin(d) /\ UNCHANGED <<obsVars, sideVars>>
    \/ update_simulation_root_commit /\ UNCHANGED <<obsVars, sideVars>>
    \/ update_simulation_try_write /\ UNCHANGED <<obsVars, sideVars>>
    \/ update_simulation_sim_commit /\ UNCHANGED <<obsVars, sideVars>>
    \/ update_simulation_try_read /\ UNCHANGED <<obsVars, sideVars>>
    \/ update_simulation_direct /\ UNCHANGED <<obsVars, sideVars>>
    \/ update_simulation_load2 /\ UNCHANGED <<obsVars, sideVars>>
    \/ /\ update_simulation_dispatch
       /\ published' \in IF \E g \in Gens : pc[g] = "pass"
                          THEN {srcOutputs, srcOutputs + 1}
                          ELSE {srcOutputs}
       /\ UNCHANGED <<srcOutputs, e2eVars, sideVars>>
    \/ create_simulator /\ UNCHANGED <<obsVars, sideVars>>

SpecCache == Init /\ [][NextCache]_vars

\* ------------------------------------------------------ the audio node
\* One channel is modelled: every loop of the node treats all channels of a
\* buffer alike, so all input channels have one length and all output
\* channels another.  Input sample i of the stream is the number i.

\* The DSP callback on one full frame: it stands for any function of the
\* frame, here the frame reversed, so that a frame cut at another place or
\* samples out of order give another output.
process_fn(frame) == [i \in 1..Len(frame) |-> frame[Len(frame) + 1 - i]]

TakeFirst(q, n) == SubSeq(q, 1, n)
DropFirst(q, n) == SubSeq(q, n + 1, Len(q))

\* Vec::extend / Vec::reserve: a Vec whose length outgrows its capacity
\* reallocates to the amortized size
GrowTo(cap, len) == IF len <= cap THEN cap ELSE Max(Max(cap + cap, len), 4)

\* The input loop of process: push_frame for every input sample; a full
\* frame is run through the callback, its output appended to the queue, and
\* the input buffer cleared
RECURSIVE FillFrames(_, _, _, _)
FillFrames(inp, out, cap, samples) ==
    IF samples = <<>>
    THEN [inputs |-> inp, outputs |-> out, capacity |-> cap]
    ELSE LET pushed == Append(inp, Head(samples)) IN
         IF Len(pushed) = frame_size
         THEN FillFrames(<<>>, out \o process_fn(pushed),
                         GrowTo(cap, Len(out) + frame_size), Tail(samples))
         ELSE FillFrames(pushed, out, cap, Tail(samples))

\* The samples of a call of n frames
Block(n) == [i \in 1..n |-> fed + i]

\* Mutant of FixedProcessBlock_process: the input buffer is cleared at the
\* end of every call, not only after a full frame
FixedProcessBlock_process_drop_partial(n) ==
    /\ fed + n <= MaxSamples
    /\ LET r == FillFrames(input_buffer, output_buffer, capacity, Block(n)) IN
       /\ input_buffer' = <<>>
       /\ capacity' = r.capacity
       /\ IF Len(r.outputs) >= n
          THEN /\ output_buffer' = DropFirst(r.outputs, n)
               /\ emitted' = emitted \o TakeFirst(r.outputs, n)
               /\ status' = "OutputsModified"
          ELSE /\ output_buffer' = r.outputs
               /\ status' = "ClearAllOutputs"
               /\ UNCHANGED emitted
    /\ fed' = fed + n
    /\ UNCHANGED <<frame_size, max_block_frames, started_draining>>
    /\ UNCHANGED <<workerVars, ctlVars, sceneVars, obsVars, entityVars, settingsVars, late_passes, laterVars>>

\* Mutant of FixedProcessBlock_process: the drain does not compare the queue
\* with the caller's buffer; a short queue is drained to its end
FixedProcessBlock_process_drain_short(n) ==
    /\ fed + n <= MaxSamples
    /\ LET r == FillFrames(input_buffer, output_buffer, capacity, Block(n)) IN
       /\ input_buffer' = r.inputs
       /\ capacity' = r.capacity
       /\ IF Len(r.outputs) >= 1
          THEN /\ output_buffer' = DropFirst(r.outputs, Min(n, Len(r.outputs)))
               /\ emitted' = emitted \o TakeFirst(r.outputs, Min(n, Len(r.outputs)))
               /\ status' = "OutputsModified"
          ELSE /\ output_buffer' = r.outputs
               /\ status' = "ClearAllOutputs"
               /\ UNCHANGED emitted
    /\ fed' = fed + n
    /\ UNCHANGED <<frame_size, max_block_frames, started_draining>>
    /\ UNCHANGED <<workerVars, ctlVars, sceneVars, obsVars, entityVars, settingsVars, late_passes, laterVars>>

\* FixedProcessBlock::process with info.frames = n: the input loop, then the
\* drain: with at least n samples queued, n samples are moved to the output
\* and the call returns OutputsModified; otherwise nothing is drained and it
\* returns ClearAllOutputs
FixedProcessBlock_process(n) ==
    /\ fed + n <= MaxSamples
    /\ LET r == FillFrames(input_buffer, output_buffer, capacity, Block(n)) IN
       /\ input_buffer' = r.inputs
       /\ capacity' = r.capacity
       /\ IF Len(r.outputs) >= n
          THEN /\ output_buffer' = DropFirst(r.outputs, n)
               /\ emitted' = emitted \o TakeFirst(r.outputs, n)
               /\ status' = "OutputsModified"
          ELSE /\ output_buffer' = r.outputs
               /\ status' = "ClearAllOutputs"
               /\ UNCHANGED emitted
    /\ fed' = fed + n
    /\ UNCHANGED <<frame_size, max_block_frames, started_draining>>
    /\ UNCHANGED <<workerVars, ctlVars, sceneVars, obsVars, entityVars, settingsVars, late_passes, laterVars>>

\* SteamAudioNode::construct_processor: FixedProcessBlock::new(frame_size,
\* max_block_frames, 2, 2) reserves max_block_frames per output channel
InitBlock ==
    /\ SchedulerInit(TimerDuration)
    /\ \E f \in 1..MaxFrame : \E m \in 1..MaxBlockFrames : NodeInit(f, m, m)
    /\ EntityInit
    /\ SettingsInit
    /\ ProcInit("reverb")
    /\ LaterInit

NextBlock == \E n \in 1..max_block_frames : FixedProcessBlock_process(n) /\ UNCHANGED procVars

SpecBlock == InitBlock /\ [][NextBlock]_vars

\* SteamAudioDecodeProcessor::process with proc_info.frames = n.  Input that
\* is all silent returns ClearAllOutputs before any buffer is touched.
\* Otherwise the input loop runs (a full input_buffer is decoded and appended
\* to output_buffer); until started_draining, a queue below 1.5 x
\* max_block_frames returns ClearAllOutputs; then output_buffer.drain(..n),
\* which panics when fewer than n samples are queued.
SteamAudioDecodeProcessor_process(n, silent) ==
    /\ status # "panic"
    /\ fed + n <= MaxSamples
    /\ IF silent
       THEN /\ status' = "ClearAllOutputs"
            /\ UNCHANGED <<input_buffer, output_buffer, capacity,
                           started_draining, fed, emitted>>
       ELSE LET r == FillFrames(input_buffer, output_buffer, capacity, Block(n)) IN
            /\ fed' = fed + n
            /\ input_buffer' = r.inputs
            /\ capacity' = r.capacity
            /\ IF ~started_draining /\ 2 * Len(r.outputs) < 3 * max_block_frames
               THEN /\ status' = "ClearAllOutputs"
                    /\ output_buffer' = r.outputs
                    /\ UNCHANGED <<started_draining, emitted>>
               ELSE /\ started_draining' = TRUE
                    /\ IF Len(r.outputs) < n
                       THEN /\ status' = "panic"
                            /\ output_buffer' = r.outputs
                            /\ UNCHANGED emitted
                       ELSE /\ status' = "OutputsModified"
                            /\ output_buffer' = DropFirst(r.outputs, n)
                            /\ emitted' = emitted \o TakeFirst(r.outputs, n)
    /\ UNCHANGED <<frame_size, max_block_frames>>
    /\ UNCHANGED <<workerVars, ctlVars, sceneVars, obsVars, entityVars, settingsVars, late_passes, laterVars>>

\* SteamAudioDecodeNode::construct_processor: output_buffer reserved with
\* max_block_frames * 2
InitDecoder ==
    /\ SchedulerInit(TimerDuration)
    /\ \E f \in 1..MaxFrame : \E m \in 1..MaxBlockFrames : NodeInit(f, m, m + m)
    /\ EntityInit
    /\ SettingsInit
    /\ ProcInit("reverb")
    /\ LaterInit

NextDecoder ==
    \E n \in 1..max_block_frames : \E silent \in BOOLEAN :
        SteamAudioDecodeProcessor_process(n, silent) /\ UNCHANGED procVars

SpecDecoder == InitDecoder /\ [][NextDecoder]_vars

\* FixedProcessBlock::resize(f, m).  Outputs, when the capacity differs
\* from m: a larger m reserves (reserve_exact(m - capacity) grows the Vec
\* only if fewer than that many slots are free); a smaller m calls
\* buffer.resize(m, 0.0), which cuts the queue to m samples or pads it with
\* zeros to m samples, and shrink_to_fit.  Inputs, when f differs from the
\* frame size: a new FlatChannels of length 0 is built and the old frames
\* are copied into its data, which panics in the last channel when more
\* than f frames are held; the length is not copied.
FixedProcessBlock_resize(f, m) ==
    /\ status # "panic"
    /\ resizes < MaxResizes
    /\ resizes' = resizes + 1
    /\ frame_size' = f
    /\ max_block_frames' = m
    /\ IF capacity = m
       THEN UNCHANGED <<output_buffer, capacity>>
       ELSE IF m > capacity
       THEN /\ capacity' = Max(capacity, Len(output_buffer) + (m - capacity))
            /\ UNCHANGED output_buffer
       ELSE /\ output_buffer' = [i \in 1..m |-> IF i <= Len(output_buffer)
                                                 THEN output_buffer[i] ELSE 0]
            /\ capacity' = m
    /\ IF f = frame_size
       THEN UNCHANGED <<input_buffer, status>>
       ELSE IF Len(input_buffer) > f
       THEN /\ status' = "panic"
            /\ UNCHANGED input_buffer
       ELSE /\ input_buffer' = <<>>
            /\ UNCHANGED status
    /\ UNCHANGED <<started_draining, fed, emitted>>
    /\ UNCHANGED <<workerVars, ctlVars, sceneVars, obsVars, entityVars, settingsVars,
                   late_passes, migrateVars, tick_ops, countVars, probe_deferred>>

\* Process calls with a new stream or a new frame size now and then
NextResize ==
    \/ \E n \in 1..max_block_frames :
          status # "panic" /\ FixedProcessBlock_process(n) /\ UNCHANGED procVars
    \/ \E f \in 1..MaxFrame : \E m \in 1..MaxBlockFrames :
          FixedProcessBlock_resize(f, m) /\ UNCHANGED procVars

\* One processor, built with the largest frame size and block size
InitResize ==
    /\ SchedulerInit(TimerDuration)
    /\ NodeInit(MaxFrame, MaxBlockFrames, MaxBlockFrames)
    /\ EntityInit
    /\ SettingsInit
    /\ ProcInit("reverb")
    /\ LaterInit

SpecResize == InitResize /\ [][NextResize]_vars

\* ------------------------------------------------------ the processors
\* The callback invocations of the input loop of FixedProcessBlock::process
\* for a call of n frames that starts with `fill` samples in the input frame:
\* for each, the length of the input slices (fill_slices takes
\* self.length) and of the output slices (channel_capacity zeros appended)
RECURSIVE Callbacks(_, _)
Callbacks(fill, n) ==
    IF n = 0 THEN <<>>
    ELSE IF fill + 1 = frame_size
         THEN <<[inputs |-> fill + 1, outputs |-> frame_size]>> \o Callbacks(0, n - 1)
         ELSE Callbacks(fill + 1, n - 1)

\* The event loop of SteamAudioProcessor::process for one
\* SimulationOutputEvent with flags `flags` and outputs `v`: each of the
\* three parameters is set from the event if it is None or its flag is set
OnSimulationOutputEvent(params, flags, v) ==
    [k \in {"direct", "reflections", "pathing"} |->
        IF params[k] = 0 \/ k \in flags THEN v ELSE params[k]]

\* The flags a SimulationOutputEvent can carry
EventFlags == {{"direct"}, {"reflections", "pathing"}, {"reflections"}}

AllParams ==
    effect_params.direct /\ effect_params.reflections /\ effect_params.pathing

\* What every branch of a processor's process leaves alone
ProcessFrame ==
    /\ UNCHANGED <<frame_size, max_block_frames, started_draining, processor>>
    /\ UNCHANGED <<workerVars, ctlVars, sceneVars, obsVars, entityVars, settingsVars,
                   late_passes, laterVars>>

\* The branches of process that run no DSP: `clear` is fixed_block.clear(),
\* which discards the n samples of a call that was not silent
Skip(n, clear) ==
    /\ status' = "ClearAllOutputs"
    /\ calls' = <<>>
    /\ IF clear
       THEN /\ fed + n <= MaxSamples
            /\ fed' = fed + n
            /\ input_buffer' = <<>>
            /\ output_buffer' = <<>>
       ELSE UNCHANGED <<fed, input_buffer, output_buffer>>
    /\ UNCHANGED <<capacity, emitted>>
    /\ ProcessFrame

\* Mutant of SteamAudioProcessor_process: the parameters are not looked at
SteamAudioProcessor_process_ungated(n, silent, event, v) ==
    /\ processor = "encoder"
    /\ effect_params' =
          IF event = {} THEN effect_params
          ELSE [k \in {"direct", "reflections", "pathing"} |->
                  IF ~effect_params[k] \/ k \in event THEN TRUE ELSE effect_params[k]]
    /\ cached_params' =
          IF event = {} THEN cached_params
          ELSE OnSimulationOutputEvent(cached_params, event, v)
    /\ UNCHANGED <<reverb_source, audio_read>>
    /\ IF silent
       THEN Skip(n, FALSE)
       ELSE /\ FixedProcessBlock_process(n)
            /\ calls' = Callbacks(Len(input_buffer), n)
            /\ UNCHANGED processor

\* Mutant of SteamAudioProcessor_process: an event replaces all three
\* parameters, whatever its flags
SteamAudioProcessor_process_overwrite_all(n, silent, event, v) ==
    /\ processor = "encoder"
    /\ effect_params' =
          IF event = {} THEN effect_params
          ELSE [k \in {"direct", "reflections", "pathing"} |-> TRUE]
    /\ cached_params' =
          IF event = {} THEN cached_params
          ELSE [k \in {"direct", "reflections", "pathing"} |-> v]
    /\ UNCHANGED <<reverb_source, audio_read>>
    /\ IF silent
       THEN Skip(n, FALSE)
       ELSE IF ~AllParams'
       THEN Skip(n, TRUE)
       ELSE /\ FixedProcessBlock_process(n)
            /\ calls' = Callbacks(Len(input_buffer), n)
            /\ UNCHANGED processor

\* SteamAudioProcessor::process (src/nodes/encoder.rs) with frames = n: a
\* SimulationOutputEvent fills every parameter that is None or named by its
\* flags; silence in and out returns ClearAllOutputs; a missing parameter
\* clears the fixed block and returns ClearAllOutputs; otherwise the fixed
\* block is processed.  `event` is the flags of the event drained, {} without one.
SteamAudioProcessor_process(n, silent, event, v) ==
    /\ processor = "encoder"
    /\ effect_params' =
          IF event = {} THEN effect_params
          ELSE [k \in {"direct", "reflections", "pathing"} |->
                  IF ~effect_params[k] \/ k \in event THEN TRUE ELSE effect_params[k]]
    /\ cached_params' =
          IF event = {} THEN cached_params
          ELSE OnSimulationOutputEvent(cached_params, event, v)
    /\ UNCHANGED <<reverb_source, audio_read>>
    /\ IF silent
       THEN Skip(n, FALSE)
       ELSE IF ~AllParams'
       THEN Skip(n, TRUE)
       ELSE /\ FixedProcessBlock_process(n)
            /\ calls' = Callbacks(Len(input_buffer), n)
            /\ UNCHANGED processor

\* SteamAudioReverbNodeProcessor::process with frames = n: a Source event
\* replaces the source; silence in and out returns ClearAllOutputs; without
\* a source the fixed block is cleared; otherwise source.get_outputs(
\* REFLECTIONS) is read, wherever the worker of that simulator stands, and
\* the fixed block is processed.  `event`: a Source event was drained (the
\* ListenerSource of the current simulator).
SteamAudioReverbNodeProcessor_process(n, silent, event) ==
    /\ processor = "reverb"
    /\ reverb_source' = IF event THEN gen ELSE reverb_source
    /\ UNCHANGED <<effect_params, cached_params>>
    /\ IF silent
       THEN Skip(n, FALSE) /\ UNCHANGED audio_read
       ELSE IF reverb_source' = 0
       THEN Skip(n, TRUE) /\ UNCHANGED audio_read
       ELSE /\ audio_read' = IF InPass(reverb_source') THEN "pass" ELSE "idle"
            /\ FixedProcessBlock_process(n)
            /\ calls' = Callbacks(Len(input_buffer), n)
            /\ UNCHANGED processor

InitProc ==
    /\ SchedulerInit(TimerDuration)
    /\ \E f \in 1..MaxFrame : \E m \in 1..MaxBlockFrames : NodeInit(f, m, m)
    /\ EntityInit
    /\ SettingsInit
    /\ \E kind \in {"encoder", "reverb"} : ProcInit(kind)
    /\ LaterInit

NextProc ==
    \/ \E n \in 1..max_block_frames : \E silent \in BOOLEAN : \E event \in EventFlags \cup {{}} :
          SteamAudioProcessor_process(n, silent, event, 1) /\ UNCHANGED last_event
    \/ \E n \in 1..max_block_frames : \E silent \in BOOLEAN : \E event \in BOOLEAN :
          SteamAudioReverbNodeProcessor_process(n, silent, event) /\ UNCHANGED last_event

SpecProc == InitProc /\ [][NextProc]_vars

\* The reverb processor on the audio thread beside the workers and the ticks
NextReverb ==
    \/ WorkerNext
    \/ UpdateNext
    \/ \E n \in 1..max_block_frames : \E silent \in BOOLEAN : \E event \in BOOLEAN :
          SteamAudioReverbNodeProcessor_process(n, silent, event) /\ UNCHANGED last_event

SpecReverb == Init /\ [][NextReverb]_vars

\* ------------------------------------------------ the per-entity systems
\* A queued entity carries what the run will find for it.  For a source:
\* whether the entity still exists and whether Source::try_new succeeds.  For
\* a mesh: whether the asset is loaded, whether the entity is Static,
\* whether MeshToScene already holds its sub-scene, and the step that fails.
SourceEntities ==
    [exists : {FALSE}, creation : {"ok"}] \cup [exists : {TRUE}, creation : {"ok", "fail"}]

MeshEntities ==
    [loaded : {FALSE}, static : {FALSE}, cached : {FALSE}, fail : {"none"}]
    \cup [loaded : {TRUE}, static : {TRUE}, cached : {FALSE}, fail : {"none", "convert"}]
    \cup [loaded : {TRUE}, static : {FALSE}, cached : {TRUE}, fail : {"none", "instanced"}]
    \cup [loaded : {TRUE}, static : {FALSE}, cached : {FALSE},
          fail : {"none", "sub_scene", "convert", "instanced"}]

\* An entity is queued for a source (the Add observer pushes it on ToSetup)
ToSetup_push ==
    /\ next_id < MaxEntities
    /\ next_id' = next_id + 1
    /\ \E e \in SourceEntities :
          to_setup' = Append(to_setup, [id |-> next_id + 1, exists |-> e.exists,
                                        creation |-> e.creation])
    /\ UNCHANGED <<spawn_queue, errors, inserted, run_result, run_parity>>
    /\ UNCHANGED <<workerVars, ctlVars, sceneVars, obsVars, nodeVars, settingsVars, late_passes,
                 procVars, laterVars>>

\* queue_steam_audio_mesh_processing: a changed mesh entity is marked
queue_steam_audio_mesh_processing ==
    /\ next_id < MaxEntities
    /\ next_id' = next_id + 1
    /\ \E e \in MeshEntities :
          spawn_queue' = Append(spawn_queue,
                                [id |-> next_id + 1, loaded |-> e.loaded, static |-> e.static,
                                 cached |-> e.cached, fail |-> e.fail])
    /\ UNCHANGED <<to_setup, errors, inserted, run_result, run_parity>>
    /\ UNCHANGED <<workerVars, ctlVars, sceneVars, obsVars, nodeVars, settingsVars, late_passes,
                 procVars, laterVars>>

\* The loop of init_audionimbus_sources over to_setup.drain(..): an entity
\* that is gone is skipped, a failed Source::try_new pushes an error and
\* continues, a success adds the source and inserts AudionimbusSource
RECURSIVE SourcesLoop(_, _, _)
SourcesLoop(q, errs, ins) ==
    IF q = <<>> THEN [errors |-> errs, inserted |-> ins]
    ELSE LET e == Head(q) IN
         IF ~e.exists THEN SourcesLoop(Tail(q), errs, ins)
         ELSE IF e.creation = "fail"
              THEN SourcesLoop(Tail(q), Append(errs, e.id), ins)
              ELSE SourcesLoop(Tail(q), errs, ins \cup {e.id})

\* The loop with the error returned at once
RECURSIVE SourcesLoopAbort(_, _, _)
SourcesLoopAbort(q, errs, ins) ==
    IF q = <<>> THEN [errors |-> errs, inserted |-> ins]
    ELSE LET e == Head(q) IN
         IF ~e.exists THEN SourcesLoopAbort(Tail(q), errs, ins)
         ELSE IF e.creation = "fail"
              THEN [errors |-> Append(errs, e.id), inserted |-> ins]
              ELSE SourcesLoopAbort(Tail(q), errs, ins \cup {e.id})

\* Mutant of init_audionimbus_sources: the first failure ends the run
init_audionimbus_sources_abort_on_error ==
    /\ ctl = "idle"
    /\ run_parity' = [run_parity EXCEPT !["sources"] = ~@]
    /\ IF to_setup = <<>>
       THEN /\ errors' = <<>>
            /\ run_result' = "ok"
            /\ UNCHANGED <<to_setup, inserted>>
       ELSE IF ~TryReadOk(gen)
       THEN /\ errors' = <<>>
            /\ run_result' = "ok"
            /\ UNCHANGED <<to_setup, inserted>>
       ELSE LET r == SourcesLoopAbort(to_setup, <<>>, inserted) IN
            /\ to_setup' = <<>>
            /\ errors' = r.errors
            /\ inserted' = r.inserted
            /\ run_result' = IF r.errors = <<>> THEN "ok" ELSE "err"
    /\ UNCHANGED <<spawn_queue, next_id>>
    /\ UNCHANGED <<workerVars, ctlVars, sceneVars, obsVars, nodeVars, settingsVars, late_passes,
                 procVars, laterVars>>

\* init_audionimbus_sources, the whole run: errors.clear(); an empty queue
\* or a failed try_read returns Ok and leaves the queue; otherwise the loop,
\* and Err(errors.join) if any error was pushed
init_audionimbus_sources ==
    /\ ctl = "idle"
    /\ run_parity' = [run_parity EXCEPT !["sources"] = ~@]
    /\ IF to_setup = <<>>
       THEN /\ errors' = <<>>
            /\ run_result' = "ok"
            /\ UNCHANGED <<to_setup, inserted>>
       ELSE IF ~TryReadOk(gen)
       THEN /\ errors' = <<>>
            /\ run_result' = "ok"
            /\ UNCHANGED <<to_setup, inserted>>
       ELSE LET r == SourcesLoop(to_setup, <<>>, inserted) IN
            /\ to_setup' = <<>>
            /\ errors' = r.errors
            /\ inserted' = r.inserted
            /\ run_result' = IF r.errors = <<>> THEN "ok" ELSE "err"
    /\ UNCHANGED <<spawn_queue, next_id>>
    /\ UNCHANGED <<workerVars, ctlVars, sceneVars, obsVars, nodeVars, settingsVars, late_passes,
                 procVars, laterVars>>

\* The step of spawn_new_steam_audio_meshes that fails for a loaded mesh: a
\* Static mesh is converted only; an instanced one needs its sub-scene
\* (created and converted unless cached) and then the InstancedMesh
MeshFails(e) ==
    IF e.static THEN e.fail = "convert"
    ELSE IF e.cached THEN e.fail = "instanced"
    ELSE e.fail \in {"sub_scene", "convert", "instanced"}

\* The loop of spawn_new_steam_audio_meshes: a mesh not loaded yet stays
\* queued; a failure pushes an error, removes the marker and continues; a
\* success adds the mesh to the root scene, inserts the component and
\* removes the marker
RECURSIVE MeshesLoop(_, _, _, _)
MeshesLoop(q, errs, ins, keep) ==
    IF q = <<>> THEN [errors |-> errs, inserted |-> ins, queue |-> keep]
    ELSE LET e == Head(q) IN
         IF ~e.loaded THEN MeshesLoop(Tail(q), errs, ins, Append(keep, e))
         ELSE IF MeshFails(e)
              THEN MeshesLoop(Tail(q), Append(errs, e.id), ins, keep)
              ELSE MeshesLoop(Tail(q), errs, ins \cup {e.id}, keep)

\* spawn_new_steam_audio_meshes, the whole run; every mesh added is an edit
\* of the root scene that waits for the next root.commit()
spawn_new_steam_audio_meshes ==
    /\ ctl = "idle"
    /\ run_parity' = [run_parity EXCEPT !["meshes"] = ~@]
    /\ LET r == MeshesLoop(spawn_queue, <<>>, inserted, <<>>) IN
       /\ spawn_queue' = r.queue
       /\ errors' = r.errors
       /\ inserted' = r.inserted
       /\ run_result' = IF r.errors = <<>> THEN "ok" ELSE "err"
       /\ root' = [root EXCEPT !.pending = @ + Cardinality(r.inserted \ inserted)]
    /\ UNCHANGED <<to_setup, next_id>>
    /\ UNCHANGED <<toSetup, toRemove, probeRequest, probeBatch>>
    /\ UNCHANGED <<workerVars, ctlVars, obsVars, nodeVars, settingsVars, late_passes,
                 procVars, laterVars>>

\* The per-entity systems beside probe generation, the other system that
\* locks the simulator between two ticks
NextEntities ==
    \/ ToSetup_push
    \/ queue_steam_audio_mesh_processing
    \/ init_audionimbus_sources
    \/ spawn_new_steam_audio_meshes
    \/ ProbesNext

SpecEntities == Init /\ [][NextEntities]_vars

\* ------------------------------------------------ teardown of old workers
\* The workers, the scheduler and rebuilds, with the passes counted that a
\* worker begins after a rebuild has dropped its sender
worker_lock_counted(g) ==
    /\ worker_lock(g)
    /\ late_passes' = IF g < gen THEN [late_passes EXCEPT ![g] = Min(@ + 1, 2)]
                      ELSE late_passes
    /\ UNCHANGED <<obsVars, nodeVars, entityVars, settingsVars, procVars, laterVars>>

WorkerStepDrop(g) ==
    \/ worker_lock_counted(g)
    \/ worker_pass(g) /\ UNCHANGED <<obsVars, sideVars>>
    \/ worker_store(g) /\ UNCHANGED <<obsVars, sideVars>>
    \/ worker_recv(g) /\ UNCHANGED <<obsVars, sideVars>>

\* A tick as long as the timer: every tick that finds the flag true dispatches
UpdateStepDrop ==
    \/ update_simulation_begin(TimerDuration) /\ UNCHANGED <<obsVars, sideVars>>
    \/ update_simulation_root_commit /\ UNCHANGED <<obsVars, sideVars>>
    \/ update_simulation_try_write /\ UNCHANGED <<obsVars, sideVars>>
    \/ update_simulation_sim_commit /\ UNCHANGED <<obsVars, sideVars>>
    \/ update_simulation_try_read /\ UNCHANGED <<obsVars, sideVars>>
    \/ update_simulation_direct /\ UNCHANGED <<obsVars, sideVars>>
    \/ update_simulation_load2 /\ UNCHANGED <<obsVars, sideVars>>
    \/ update_simulation_dispatch /\ UNCHANGED <<obsVars, sideVars>>

NextDrop ==
    \/ \E g \in Gens : worker_lock_counted(g)
    \/ \E g \in Gens : worker_pass(g) /\ UNCHANGED <<obsVars, sideVars>>
    \/ \E g \in Gens : worker_store(g) /\ UNCHANGED <<obsVars, sideVars>>
    \/ \E g \in Gens : worker_recv(g) /\ UNCHANGED <<obsVars, sideVars>>
    \/ UpdateStepDrop
    \/ RebuildNext

\* Ticks continue and the task pool runs every worker that can take a step
SpecDrop ==
    /\ Init
    /\ [][NextDrop]_vars
    /\ WF_vars(UpdateStepDrop)
    /\ \A g \in Gens : WF_vars(WorkerStepDrop(g))

\* ------------------------------------------------------ quality settings
\* The user writes SteamAudioQuality through ResMut: the resource reads as
\* changed whether or not the value differs
set_quality(q) ==
    /\ ctl = "idle"
    /\ quality' = q
    /\ quality_changed' = TRUE
    /\ UNCHANGED <<prev_quality, trigger, settings_parity>>
    /\ UNCHANGED <<workerVars, ctlVars, sceneVars, obsVars, nodeVars, entityVars, late_passes,
                 procVars, laterVars>>

\* recreate_simulator_on_settings_change, one run in PostUpdate: the first
\* run stores the quality in the Local and returns; a later run returns if
\* the resource is unchanged and equal to the Local, and triggers
\* CreateSimulator otherwise.  The Local is written by the first run only.
\* The triggered observer is create_simulator; rebuilds are followed up to
\* MaxGen generations.
recreate_simulator_on_settings_change ==
    /\ ctl = "idle"
    /\ settings_parity' = ~settings_parity
    /\ quality_changed' = FALSE
    /\ IF prev_quality = "none"
       THEN /\ prev_quality' = quality
            /\ trigger' = FALSE
            /\ UNCHANGED <<workerVars, ctlVars, sceneVars>>
       ELSE IF ~quality_changed /\ prev_quality = quality
       THEN /\ trigger' = FALSE
            /\ UNCHANGED prev_quality
            /\ UNCHANGED <<workerVars, ctlVars, sceneVars>>
       ELSE /\ trigger' = TRUE
            /\ UNCHANGED prev_quality
            /\ IF gen < MaxGen
               THEN create_simulator
               ELSE UNCHANGED <<workerVars, ctlVars, sceneVars>>
    /\ UNCHANGED quality
    /\ UNCHANGED <<obsVars, nodeVars, entityVars, late_passes,
                 procVars, laterVars>>

NextSettings ==
    \/ \E q \in Qualities : set_quality(q)
    \/ recreate_simulator_on_settings_change
    \/ WorkerNext
    \/ UpdateNext

SpecSettings == Init /\ [][NextSettings]_vars


\* ------------------------------------------------- passes and wakes counted
\* The worker's read().unwrap() begins a pass
worker_lock_started(g) ==
    /\ worker_lock(g)
    /\ passes_started' = [passes_started EXCEPT ![g] = @ + 1]
    /\ UNCHANGED <<wakes_sent, migrateVars, tick_ops, resizes, probe_deferred>>
    /\ UNCHANGED <<obsVars, nodeVars, entityVars, settingsVars, late_passes, procVars>>

\* sender.send(()) at the end of a dispatching tick
update_simulation_dispatch_sent ==
    /\ update_simulation_dispatch
    /\ wakes_sent' = IF chan'[gen] > chan[gen]
                     THEN [wakes_sent EXCEPT ![gen] = @ + 1] ELSE wakes_sent
    /\ UNCHANGED <<passes_started, migrateVars, tick_ops, resizes, probe_deferred>>
    /\ UNCHANGED <<obsVars, nodeVars, entityVars, settingsVars, late_passes, procVars>>

\* Ticks as long as the timer, until MaxWakes wakes have gone to the worker
NextCount ==
    \/ \E g \in Gens : worker_lock_started(g)
    \/ \E g \in Gens : worker_pass(g) /\ UNCHANGED <<obsVars, sideVars>>
    \/ \E g \in Gens : worker_store(g) /\ UNCHANGED <<obsVars, sideVars>>
    \/ \E g \in Gens : worker_recv(g) /\ UNCHANGED <<obsVars, sideVars>>
    \/ /\ wakes_sent[gen] < MaxWakes
       /\ update_simulation_begin(TimerDuration)
       /\ UNCHANGED <<obsVars, sideVars>>
    \/ update_simulation_root_commit /\ UNCHANGED <<obsVars, sideVars>>
    \/ update_simulation_try_write /\ UNCHANGED <<obsVars, sideVars>>
    \/ update_simulation_sim_commit /\ UNCHANGED <<obsVars, sideVars>>
    \/ update_simulation_try_read /\ UNCHANGED <<obsVars, sideVars>>
    \/ update_simulation_direct /\ UNCHANGED <<obsVars, sideVars>>
    \/ update_simulation_load2 /\ UNCHANGED <<obsVars, sideVars>>
    \/ update_simulation_dispatch_sent
    \/ RebuildNext

SpecCount == Init /\ [][NextCount]_vars


\* ------------------------------------------- a tick, statement by statement
\* tick_ops is the list of what the tick in progress (or, between ticks, the
\* last tick) has executed.  What the steps leave alone besides:
tickKept == <<obsVars, nodeVars, entityVars, settingsVars, late_passes, procVars,
              migrateVars, countVars, resizes, probe_deferred>>

\* The tick begins; a disabled tick returns before anything is done
update_simulation_begin_tick(d) ==
    /\ update_simulation_begin(d)
    /\ tick_ops' = IF enabled THEN <<"begin">> ELSE <<>>
    /\ UNCHANGED tickKept

\* Mutant of update_simulation_try_read_tick: a tick that has loaded the flag
\* as false returns before the direct pass
update_simulation_try_read_skip_busy ==
    /\ ctl = "tryRead"
    /\ IF observed
       THEN /\ readers' = [readers EXCEPT ![gen] = @ + 1]
            /\ ctl' = "direct"
            /\ UNCHANGED <<observed, dt>>
       ELSE /\ ctl' = "idle"
            /\ observed' = FALSE
            /\ dt' = 0
            /\ UNCHANGED readers
    /\ UNCHANGED <<gen, result, enabled, timer, accum>>
    /\ UNCHANGED <<pc, complete, chan, writer, passScene, woken, storedSinceWake>>
    /\ UNCHANGED <<sceneVars, tick_ops, tickKept>>

\* try_read() of the tick
update_simulation_try_read_tick ==
    /\ update_simulation_try_read
    /\ UNCHANGED <<tick_ops, tickKept>>

\* set_shared_inputs(DIRECT), run_direct() and the loop that pushes one
\* DIRECT SimulationOutputEvent for every source with the DIRECT flag, under
\* the read guard; then timer.tick and the is_finished() test
update_simulation_direct_tick ==
    /\ update_simulation_direct
    /\ tick_ops' = Append(tick_ops, "direct")
    /\ UNCHANGED tickKept

\* Mutant of update_simulation_publish: complete.store(false) comes first
update_simulation_publish_after_clear ==
    /\ ctl = "dispatch"
    /\ complete' = [complete EXCEPT ![gen] = FALSE]
    /\ ctl' = "setInputs"
    /\ tick_ops' = tick_ops \o <<"clear", "publish">>
    /\ UNCHANGED <<gen, observed, result, enabled, timer, dt, accum>>
    /\ UNCHANGED <<pc, chan, readers, writer, passScene, woken, storedSinceWake>>
    /\ UNCHANGED <<sceneVars, tickKept>>

\* The loop over the sources with get_outputs(flags without DIRECT) and the
\* SimulationOutputEvent of each, then the listener source's reflections
\* outputs for the reverb node
update_simulation_publish ==
    /\ ctl = "dispatch"
    /\ ctl' = "setInputs"
    /\ tick_ops' = Append(tick_ops, "publish")
    /\ UNCHANGED <<gen, observed, result, enabled, timer, dt, accum>>
    /\ UNCHANGED <<workerVars, sceneVars, tickKept>>

\* set_shared_inputs(REFLECTIONS | PATHING), the listener source's inputs
\* and every source's inputs
update_simulation_set_inputs ==
    /\ ctl = "setInputs"
    /\ ctl' = "clearFlag"
    /\ tick_ops' = Append(tick_ops, "inputs")
    /\ UNCHANGED <<gen, observed, result, enabled, timer, dt, accum>>
    /\ UNCHANGED <<workerVars, sceneVars, tickKept>>

\* synchro.complete.store(false, SeqCst)
update_simulation_clear_flag ==
    /\ ctl = "clearFlag"
    /\ complete' = [complete EXCEPT ![gen] = FALSE]
    /\ ctl' = "resetTimer"
    /\ tick_ops' = Append(tick_ops, "clear")
    /\ UNCHANGED <<gen, observed, result, enabled, timer, dt, accum>>
    /\ UNCHANGED <<pc, chan, readers, writer, passScene, woken, storedSinceWake>>
    /\ UNCHANGED <<sceneVars, tickKept>>

\* timer.reset()
update_simulation_reset_timer ==
    /\ ctl = "resetTimer"
    /\ timer' = TimerReset(timer)
    /\ accum' = 0
    /\ ctl' = "send"
    /\ tick_ops' = Append(tick_ops, "reset")
    /\ UNCHANGED <<gen, observed, result, enabled, dt>>
    /\ UNCHANGED <<workerVars, sceneVars, tickKept>>

\* synchro.sender.send(())?; Ok(()): the tick ends and its read guard drops
update_simulation_send ==
    /\ ctl = "send"
    /\ IF pc[gen] = "done"
       THEN /\ result' = "err"
            /\ UNCHANGED <<chan, woken, storedSinceWake>>
       ELSE /\ chan' = [chan EXCEPT ![gen] = @ + 1]
            /\ woken' = [woken EXCEPT ![gen] = TRUE]
            /\ storedSinceWake' = [storedSinceWake EXCEPT ![gen] = FALSE]
            /\ result' = "ok"
    /\ readers' = [readers EXCEPT ![gen] = @ - 1]
    /\ ctl' = "idle"
    /\ observed' = FALSE
    /\ dt' = 0
    /\ tick_ops' = Append(tick_ops, "send")
    /\ UNCHANGED <<gen, enabled, timer, accum>>
    /\ UNCHANGED <<pc, complete, writer, passScene>>
    /\ UNCHANGED <<sceneVars, tickKept>>

NextOrder ==
    \/ WorkerNext
    \/ \E d \in 1..MaxDt : update_simulation_begin_tick(d)
    \/ update_simulation_root_commit /\ UNCHANGED <<obsVars, sideVars>>
    \/ update_simulation_try_write /\ UNCHANGED <<obsVars, sideVars>>
    \/ update_simulation_sim_commit /\ UNCHANGED <<obsVars, sideVars>>
    \/ update_simulation_try_read_tick
    \/ update_simulation_direct_tick
    \/ update_simulation_load2 /\ UNCHANGED <<obsVars, sideVars>>
    \/ update_simulation_publish
    \/ update_simulation_set_inputs
    \/ update_simulation_clear_flag
    \/ update_simulation_reset_timer
    \/ update_simulation_send
    \/ RebuildNext
    \/ SettingsNext

SpecOrder == Init /\ [][NextOrder]_vars


\* ------------------------------------------ the callbacks of a process call
\* The callback invocations when the frame left partly filled at the end of
\* the call is handed to the callback too
CallbacksFlushPartial(fill, n) ==
    LET rest == (fill + n) % frame_size IN
    Callbacks(fill, n) \o
        (IF rest = 0 THEN <<>> ELSE <<[inputs |-> rest, outputs |-> frame_size]>>)

\* Mutant of FixedProcessBlock_process_calls: the partial frame is processed
\* at the end of the call
FixedProcessBlock_process_calls_flush_partial(n) ==
    /\ FixedProcessBlock_process(n)
    /\ calls' = CallbacksFlushPartial(Len(input_buffer), n)
    /\ UNCHANGED <<processor, effect_params, reverb_source, audio_read, eventVars>>

\* FixedProcessBlock::process with info.frames = n, with the callback
\* invocations of the call recorded
FixedProcessBlock_process_calls(n) ==
    /\ FixedProcessBlock_process(n)
    /\ calls' = Callbacks(Len(input_buffer), n)
    /\ UNCHANGED <<processor, effect_params, reverb_source, audio_read, eventVars>>

NextCalls == \E n \in 1..max_block_frames : FixedProcessBlock_process_calls(n)

SpecCalls == InitBlock /\ [][NextCalls]_vars


\* ------------------------------------------- the encoder's cached parameters
\* An encoder with the largest frame and block size
InitEvents ==
    /\ SchedulerInit(TimerDuration)
    /\ NodeInit(MaxFrame, MaxBlockFrames, MaxBlockFrames)
    /\ EntityInit
    /\ SettingsInit
    /\ ProcInit("encoder")
    /\ LaterInit

\* Process calls of whole blocks, each with no event or with one
\* SimulationOutputEvent of any flags and any outputs
NextEvents ==
    \E silent \in BOOLEAN : \E event \in EventFlags \cup {{}} : \E v \in 1..MaxValue :
       /\ SteamAudioProcessor_process(max_block_frames, silent, event, v)
       /\ last_event' = [flags |-> event, outputs |-> IF event = {} THEN 0 ELSE v]

SpecEvents == InitEvents /\ [][NextEvents]_vars


\* ------------------------------------------------------ ticks without a timer
\* The ticks statement by statement, the workers, rebuilds, and the user
\* switching the simulation on and off and the timer between None and Some
NextNoTimer ==
    \/ NextOrder
    \/ set_timer /\ UNCHANGED <<obsVars, sideVars>>

SpecNoTimer == Init /\ [][NextNoTimer]_vars


\* ------------------------------------------------- probe requests retried
probeKept == <<obsVars, nodeVars, entityVars, settingsVars, late_passes, procVars,
               migrateVars, tick_ops, countVars, resizes>>

\* The user's message is a new request
write_generate_probes_new ==
    /\ write_generate_probes
    /\ probe_deferred' = FALSE
    /\ UNCHANGED probeKept

\* generate_probes runs: on_message holds while a message is unread, and a
\* message written back is unread in the next frame
generate_probes_begin_frame ==
    /\ generate_probes_begin
    /\ probe_deferred' = (probe_deferred \/ ~TryWriteOk(gen))
    /\ UNCHANGED probeKept

\* The workers, the ticks, rebuilds and the probe requests
NextProbes ==
    \/ WorkerNext
    \/ UpdateStepDrop
    \/ write_generate_probes_new
    \/ generate_probes_begin_frame
    \/ generate_probes_commit /\ UNCHANGED <<obsVars, sideVars>>
    \/ RebuildNext

SpecProbes == Init /\ [][NextProbes]_vars


\* ------------------------------ the blocking systems of src/, step by step
\* The systems of src/ that lock the simulator run one after the other in
\* PostUpdate (the sets CreateSimulator, UpdateSources and RunSimulator are
\* chained); each is followed here from its start to its end, a lock request
\* being a step that waits until the lock can be taken.  One simulator is
\* followed: a rebuild makes a new lock and a new channel, and no system
\* locks the simulator of a superseded worker again.

\* init_audionimbus_sources of src/sources.rs: to_setup.drain(..) with a
\* non-empty queue enters the loop
init_audionimbus_sources_drain ==
    /\ ctl = "idle"
    /\ toSetup > 0
    /\ ctl' = "srcRead"
    /\ UNCHANGED <<gen, observed, result, enabled, timer, dt, accum>>
    /\ UNCHANGED <<workerVars, sceneVars>>

\* Source::try_new(&simulator.read().unwrap(), &settings): the read waits
\* while a write guard is held; the guard is a temporary of the let
\* statement and is dropped at its end.  A failed try_new pushes an error
\* and continues with the next entity.
init_audionimbus_sources_read ==
    /\ ctl = "srcRead"
    /\ TryReadOk(gen)
    /\ \E created \in BOOLEAN :
          IF created
          THEN /\ ctl' = "srcWrite"
               /\ UNCHANGED toSetup
          ELSE /\ toSetup' = toSetup - 1
               /\ ctl' = IF toSetup > 1 THEN "srcRead" ELSE "idle"
    /\ UNCHANGED <<gen, observed, result, enabled, timer, dt, accum>>
    /\ UNCHANGED <<root, toRemove, probeRequest, probeBatch>>
    /\ UNCHANGED workerVars

\* simulator.write().unwrap().add_source(&source): the write waits while any
\* guard is held and is dropped at the statement's end
init_audionimbus_sources_write ==
    /\ ctl = "srcWrite"
    /\ TryWriteOk(gen)
    /\ toSetup' = toSetup - 1
    /\ ctl' = IF toSetup > 1 THEN "srcRead" ELSE "idle"
    /\ UNCHANGED <<gen, observed, result, enabled, timer, dt, accum>>
    /\ UNCHANGED <<root, toRemove, probeRequest, probeBatch>>
    /\ UNCHANGED workerVars

\* migrate_simulator with a changed resource, up to its lock request
migrate_simulator_begin ==
    /\ ctl = "idle"
    /\ sim_changed
    /\ ctl' = "migrate"
    /\ UNCHANGED <<gen, observed, result, enabled, timer, dt, accum>>
    /\ UNCHANGED <<workerVars, sceneVars>>
    /\ UNCHANGED <<obsVars, nodeVars, entityVars, settingsVars, late_passes, procVars, laterVars>>

\* simulator.write().unwrap(), add_source, set_scene, add_probe_batch,
\* commit; the guard drops at the system's end
migrate_simulator_write ==
    /\ ctl = "migrate"
    /\ TryWriteOk(gen)
    /\ migrated' = [migrated EXCEPT ![gen] = TRUE]
    /\ sim_changed' = FALSE
    /\ ctl' = "idle"
    /\ UNCHANGED <<gen, observed, result, enabled, timer, dt, accum>>
    /\ UNCHANGED <<workerVars, sceneVars>>
    /\ UNCHANGED <<obsVars, nodeVars, entityVars, settingsVars, late_passes, procVars,
                   tick_ops, countVars, resizes, probe_deferred>>

\* A step of a system that has started: the control thread goes on whenever
\* it is not waiting for the lock
ControlStepBlocking ==
    \/ update_simulation_root_commit
    \/ update_simulation_write
    \/ update_simulation_sim_commit
    \/ update_simulation_read
    \/ update_simulation_direct
    \/ update_simulation_load2
    \/ update_simulation_dispatch
    \/ init_audionimbus_sources_read
    \/ init_audionimbus_sources_write

WorkerStepBlocking(g) ==
    \/ worker_lock_write(g)
    \/ worker_pass_write(g)
    \/ worker_store(g)
    \/ worker_recv(g)

NextBlocking ==
    \/ \E g \in Gens : worker_lock_write(g) /\ UNCHANGED <<obsVars, sideVars>>
    \/ \E g \in Gens : worker_pass_write(g) /\ UNCHANGED <<obsVars, sideVars>>
    \/ \E g \in Gens : worker_store(g) /\ UNCHANGED <<obsVars, sideVars>>
    \/ \E g \in Gens : worker_recv(g) /\ UNCHANGED <<obsVars, sideVars>>
    \/ \E d \in 1..MaxDt : update_simulation_begin(d) /\ UNCHANGED <<obsVars, sideVars>>
    \/ update_simulation_root_commit /\ UNCHANGED <<obsVars, sideVars>>
    \/ update_simulation_write /\ UNCHANGED <<obsVars, sideVars>>
    \/ update_simulation_sim_commit /\ UNCHANGED <<obsVars, sideVars>>
    \/ update_simulation_read /\ UNCHANGED <<obsVars, sideVars>>
    \/ update_simulation_direct /\ UNCHANGED <<obsVars, sideVars>>
    \/ update_simulation_load2 /\ UNCHANGED <<obsVars, sideVars>>
    \/ update_simulation_dispatch /\ UNCHANGED <<obsVars, sideVars>>
    \/ queue_audionimbus_source_init /\ UNCHANGED <<obsVars, sideVars>>
    \/ init_audionimbus_sources_drain /\ UNCHANGED <<obsVars, sideVars>>
    \/ init_audionimbus_sources_read /\ UNCHANGED <<obsVars, sideVars>>
    \/ init_audionimbus_sources_write /\ UNCHANGED <<obsVars, sideVars>>
    \/ migrate_simulator_begin
    \/ migrate_simulator_write
    \/ SettingsNext

\* A system that has started runs on whenever it can take a step, and the
\* task pool runs every worker that can take one; each pass ends.  Nothing
\* is assumed about when a system starts.
SpecBlocking ==
    /\ Init
    /\ [][NextBlocking]_vars
    /\ WF_vars(ControlStepBlocking /\ UNCHANGED <<obsVars, sideVars>>)
    /\ WF_vars(migrate_simulator_write)
    /\ \A g \in Gens : WF_vars(WorkerStepBlocking(g) /\ UNCHANGED <<obsVars, sideVars>>)

\* ================================================================ claims
\* A wake is sent to worker g in this step
WakeSent(g) == chan'[g] > chan[g]

\* C1: between two consecutive wakes sent to the same worker, that worker
\* has stored true to the completion flag; a wake is sent only when the
\* flag update_simulation last loaded was true.
C1_NoWakeBeforeCompletion ==
    [][\A g \in Gens :
          WakeSent(g) => /\ observed
                         /\ g = gen
                         /\ woken[g] => storedSinceWake[g]]_vars

\* A second wake is about to be sent: woken once, completed since.
C1_Witness ==
    /\ ctl = "dispatch"
    /\ observed
    /\ woken[gen]
    /\ storedSinceWake[gen]

\* C2: at most one expensive pass is in flight at any moment, across a
\* rebuild too.
C2_AtMostOnePassInFlight == Cardinality({g \in Gens : InPass(g)}) <= 1

\* C3: root.commit() runs only in a tick that has just loaded the flag as
\* true, and no worker, current or left over from before a rebuild, is
\* inside an expensive pass at that moment.
C3_RootCommitWhenNoPass ==
    ctl = "rootCommit" => /\ observed
                          /\ \A g \in Gens : ~InPass(g)

\* C4: the committed scene does not change under a pass in flight: an edit
\* made while a pass runs is not visible to that pass.
C4_EditNotVisibleToPassInFlight ==
    \A g \in Gens : InPass(g) => root.committed = passScene[g]

\* C5: simulator.commit() of update_simulation and of generate_probes never
\* executes while the worker of the same simulator is inside its pass.
C5_SimulatorCommitExcludesPass ==
    ctl \in {"simCommit", "probeCommit"} =>
        /\ writer[gen]
        /\ ~InPass(gen)
        /\ readers[gen] = 0

\* The commit executes while the worker waits for the lock.
C5_Witness ==
    /\ ctl \in {"simCommit", "probeCommit"}
    /\ pc[gen] = "lock"
    /\ woken[gen]

\* C6: add_source and remove_source never run while the worker of the
\* same simulator is inside its pass.
C6_SourceChangeExcludesPass ==
    ctl \in {"addSource", "removeSource"} => ~InPass(gen)

\* C7: while a worker is inside its pass its flag is false; the flag goes
\* from false to true only by the worker's store, made after the read guard
\* is released, and from true to false only by update_simulation's dispatch.
C7_FlagProtocol ==
    /\ [](\A g \in Gens : InPass(g) => ~complete[g])
    /\ [][\A g \in Gens :
            /\ (~complete[g] /\ complete'[g]) =>
                   (pc[g] = "store" /\ pc'[g] = "recv")
            /\ (complete[g] /\ ~complete'[g]) =>
                   (ctl = "dispatch" /\ g = gen)]_vars

\* A pass started by a wake is running.
C7_Witness == \E g \in Gens : InPass(g) /\ woken[g] /\ ~complete[g]

\* C8: a wake is sent only when the tick deltas accumulated since the
\* previous dispatch reach the timer's period.
C8_DispatchAtMostOncePerPeriod ==
    [][(\E g \in Gens : WakeSent(g)) => accum >= timer.duration]_vars

\* A dispatch that follows an earlier one.
C8_Witness ==
    /\ ctl = "dispatch"
    /\ woken[gen]
    /\ accum >= timer.duration

\* C9: an elapsed timer found with the worker busy stays elapsed until a
\* dispatch; the tick that then loads the flag as true dispatches, the
\* dispatch resets the timer, and with ticks continuing and the pass
\* terminating the deferred dispatch does happen.
Deferred == ctl = "idle" /\ timer.finished
Dispatched == ~timer.finished /\ woken[gen] /\ ~storedSinceWake[gen]

C9_DeferredNotDropped ==
    /\ [][/\ (timer.finished /\ ctl # "dispatch") => timer'.finished
          /\ (ctl = "load2" /\ complete[gen] /\ ctl' # ctl) => ctl' = "dispatch"
          /\ (\E g \in Gens : WakeSent(g)) =>
                 (timer.finished /\ timer' = NewTimer(timer.duration))]_vars
    /\ Deferred ~> Dispatched

\* A tick has deferred: the timer is elapsed, the flag false, the tick over.
C9_Witness == Deferred /\ ~complete[gen] /\ woken[gen]

\* C10: with ticks of 10 ms and a period of 500 ms, as long as no tick has
\* found the worker busy at an elapsed timer: wakes are sent in ticks 50 and
\* 100 and in no other tick, and every tick runs one direct pass; so after
\* 100 ticks exactly two wakes were sent and 100 direct passes were run.
C10_EndToEnd ==
    ~deferredSeen =>
        /\ wakeTicks \subseteq {50, 100}
        /\ ctl = "idle" =>
              /\ directCount = tickCount
              /\ tickCount >= 50 => 50 \in wakeTicks
              /\ tickCount = 100 => (wakeTicks = {50, 100} /\ directCount = 100)

C10_Witness ==
    /\ tickCount = 100
    /\ ctl = "idle"
    /\ ~deferredSeen
    /\ Cardinality(wakeTicks) = 2

C12_NoReadRequestDuringPass ==
    ctl = "tryRead" => ~(pc[gen] = "pass" /\ writer[gen])

\* The input 1..n run through process_fn in consecutive frame-sized chunks;
\* samples beyond the last full frame give no output yet
RECURSIVE Reference(_, _)
Reference(from, n) ==
    IF n - from + 1 < frame_size THEN <<>>
    ELSE process_fn([i \in 1..frame_size |-> from + i - 1])
             \o Reference(from + frame_size, n)

\* C13: whatever the block sizes of the calls, the samples written on
\* OutputsModified calls, followed by those still queued, are the outputs of
\* process_fn over consecutive frame-sized chunks of the whole input, in
\* order, none lost or duplicated; the samples after the last full frame wait
\* in the input buffer.
C13_FrameReassembly ==
    /\ emitted \o output_buffer = Reference(1, fed)
    /\ input_buffer = [i \in 1..(fed % frame_size) |-> fed - (fed % frame_size) + i]

\* Calls smaller and larger than the frame, a frame that is no multiple of
\* the block, and output written over several calls.
C13_Witness ==
    /\ frame_size = 3
    /\ max_block_frames = 4
    /\ Len(emitted) >= 6
    /\ input_buffer # <<>>
    /\ output_buffer # <<>>

\* C14: no process call changes the capacity of the output queue: its
\* length stays within what construction reserved.
C14_NoAllocationInSteadyState ==
    /\ [][capacity' = capacity]_vars
    /\ [](Len(output_buffer) <= max_block_frames * 2)

\* C15: in every decoder process call that takes its input (fed grows):
\* a call that leaves started_draining false returns ClearAllOutputs and
\* removes nothing from the queue; from the first draining call onward every
\* call returns OutputsModified and removes exactly the requested number of
\* samples.
C15_DrainRule ==
    [][fed' # fed =>
          /\ ~started_draining' =>
                 /\ status' = "ClearAllOutputs"
                 /\ emitted' = emitted
                 /\ Len(output_buffer') >= Len(output_buffer)
          /\ started_draining' =>
                 /\ status' = "OutputsModified"
                 /\ Len(emitted') = Len(emitted) + (fed' - fed)]_vars

SourcesOk(q) == {q[i].id : i \in {j \in DOMAIN q : q[j].exists /\ q[j].creation = "ok"}}
SourcesFailed(q) == {q[i].id : i \in {j \in DOMAIN q : q[j].exists /\ q[j].creation = "fail"}}
MeshesOk(q) == {q[i].id : i \in {j \in DOMAIN q : q[j].loaded /\ ~MeshFails(q[j])}}
MeshesFailed(q) == {q[i].id : i \in {j \in DOMAIN q : q[j].loaded /\ MeshFails(q[j])}}
ErrorSet == {errors[i] : i \in DOMAIN errors}

C19_StartsNoFurtherPass ==
    [][\A g \in Gens : g < gen => ~(pc[g] = "recv" /\ pc'[g] = "lock")]_vars

\* C19: a worker whose sender has been dropped begins at most one pass after
\* the drop (the one it was already woken for: the wake may still be in the
\* channel, or the worker may be waiting for the lock), no wake reaches it
\* any more, and it terminates.
C19_AtMostOneLatePass ==
    /\ [](\A g \in Gens : late_passes[g] <= 1)
    /\ [][\A g \in Gens : g < gen => chan'[g] <= chan[g]]_vars
    /\ \A g \in Gens : (g < gen) ~> (pc[g] = "done")

\* An old worker that began a pass after the drop and has terminated.
C19_Witness == \E g \in Gens : g < gen /\ late_passes[g] = 1 /\ pc[g] = "done"

\* C20: a run of recreate_simulator_on_settings_change after the first
\* triggers CreateSimulator if and only if SteamAudioQuality was changed
\* since the run before.
C20_TriggerIffChanged ==
    [][(settings_parity' # settings_parity /\ prev_quality # "none") =>
          (trigger' <=> quality_changed)]_vars

\* C21: in src/simulation.rs, no worker of a rebuilt simulator is inside a
\* pass before migrate_simulator has added the sources, the probe batch and
\* the root scene to that simulator and committed.
C21_MigratedBeforeFirstPass ==
    \A g \in Gens : (g > 1 /\ InPass(g)) => migrated[g]

\* What the processor needs before it runs the DSP
Ready == IF processor = "encoder" THEN AllParams ELSE reverb_source # 0

\* C22: as long as a parameter (encoder) or the source (reverb) has not
\* been received, every process call has returned ClearAllOutputs without
\* invoking the callback, the fixed block's input and output buffers are
\* empty, and no sample has been emitted.
C22_SilenceUntilParameters ==
    ~Ready => /\ input_buffer = <<>>
              /\ output_buffer = <<>>
              /\ emitted = <<>>
              /\ calls = <<>>
              /\ status \in {"none", "ClearAllOutputs"}

\* Audio that is not silent was given to a processor that lacks a parameter.
C22_Witness == ~Ready /\ fed >= frame_size /\ status = "ClearAllOutputs" /\ frame_size > 1

\* C24: the audio thread never reads a Source's outputs while the worker of
\* that Source's simulator is inside a pass.
C24_NoAudioReadDuringPass == audio_read # "pass"

\* C23: a resize to another frame size or another maximal output size
\* leaves the queued output samples and the partly filled input frame as
\* they were.
C23_ResizePreservesQueued ==
    [][(frame_size' # frame_size \/ max_block_frames' # max_block_frames) =>
          /\ output_buffer' = output_buffer
          /\ input_buffer' = input_buffer
          /\ status' # "panic"]_vars

\* C25: a worker has started at most as many expensive passes as wakes have
\* been sent to it.
C25_PassOnlyAfterWake ==
    \A g \in Gens : passes_started[g] <= wakes_sent[g]

\* The statements of a dispatch, in the order of the source
DispatchOrder == <<"publish", "inputs", "clear", "reset", "send">>
IsDispatchOp(op) == op \in {"publish", "inputs", "clear", "reset", "send"}
DispatchOps == SelectSeq(tick_ops, IsDispatchOp)

C27_DeferredTickChangesNothing ==
    [][(ctl = "load2" /\ ~complete[gen] /\ ctl' # ctl) =>
          /\ ctl' = "idle"
          /\ timer' = timer
          /\ timer.finished
          /\ complete' = complete
          /\ chan' = chan
          /\ tick_ops' = tick_ops
          /\ DispatchOps = <<>>]_vars

\* A tick has ended on the busy worker: the timer is elapsed, the flag false.
C27_Witness ==
    /\ ctl = "idle"
    /\ tick_ops = <<"begin", "direct">>
    /\ timer.finished
    /\ ~complete[gen]

\* C28: while a worker is inside a pass its wake channel is empty, and no
\* channel ever holds more than one wake.
C28_NoQueuedWake ==
    \A g \in Gens : /\ chan[g] <= 1
                    /\ InPass(g) => chan[g] = 0

\* The worker runs the pass it was woken for; its channel is empty again.
C28_Witness == \E g \in Gens : InPass(g) /\ woken[g] /\ chan[g] = 0

\* Number of direct passes of the tick
RECURSIVE CountOp(_, _)
CountOp(ops, op) ==
    IF ops = <<>> THEN 0
    ELSE (IF Head(ops) = op THEN 1 ELSE 0) + CountOp(Tail(ops), op)

C29_CallbackPerFullFrame ==
    [][LET n == fed' - fed
           fill == Len(input_buffer)
           queued == (Len(output_buffer') + Len(emitted')) -
                     (Len(output_buffer) + Len(emitted)) IN
       /\ Len(calls') = (fill + n) \div frame_size
       /\ \A i \in 1..Len(calls') : /\ calls'[i].inputs = frame_size
                                    /\ calls'[i].outputs = frame_size
       /\ queued = Len(calls') * frame_size
       /\ Len(input_buffer') = (fill + n) % frame_size
       /\ Len(input_buffer') < frame_size]_vars

\* A call has filled the frame twice and left a partial frame behind.
C29_Witness ==
    /\ Len(calls) >= 2
    /\ input_buffer # <<>>
    /\ status = "OutputsModified"

\* C31: a SimulationOutputEvent with flags F replaces the cached parameters
\* of every pass in F by the event's outputs; the parameters of a pass not
\* in F that are already set stay as they are.
C31_LatestEventWinsPerPass ==
    [][last_event'.flags # {} =>
          \A k \in {"direct", "reflections", "pathing"} :
             /\ k \in last_event'.flags => cached_params'[k] = last_event'.outputs
             /\ (k \notin last_event'.flags /\ cached_params[k] # 0) =>
                    cached_params'[k] = cached_params[k]]_vars

\* A direct-only event has replaced the direct parameters and has left other
\* reflections parameters in the cache.
C31_Witness ==
    /\ last_event.flags = {"direct"}
    /\ cached_params.direct = last_event.outputs
    /\ cached_params.reflections # 0
    /\ cached_params.reflections # cached_params.direct

\* C32: while the timer is None no step clears a completion flag, sends a
\* wake or executes a statement of the dispatch; the tick runs the direct
\* pass and ends right after it.
C32_NoDispatchWithoutTimer ==
    [][timer = NoTimer =>
          /\ \A g \in Gens : /\ complete[g] => complete'[g]
                             /\ ~WakeSent(g)
          /\ (tick_ops' # tick_ops /\ tick_ops' # <<>>) =>
                 ~IsDispatchOp(tick_ops'[Len(tick_ops')])
          /\ (ctl = "direct" /\ ctl' # ctl) =>
                 /\ ctl' = "idle"
                 /\ tick_ops' = <<"begin", "direct">>
                 /\ result' = "ok"
          /\ ctl \notin {"load2", "dispatch", "setInputs", "clearFlag", "resetTimer", "send"}]_vars

\* A tick without a timer has run the direct pass and ended, with the flag
\* true and the worker waiting.
C32_Witness ==
    /\ timer = NoTimer
    /\ ctl = "idle"
    /\ tick_ops = <<"begin", "direct">>
    /\ complete[gen]
    /\ pc[gen] = "recv"
    /\ woken[gen]

C34_IdleWorkerHasFlagTrue ==
    \A g \in Gens : (pc[g] = "recv" /\ chan[g] = 0) => complete[g]

\* C34 amended: whenever a worker waits in recv on an empty channel its
\* completion flag is true, except inside the dispatching tick of its
\* simulator between complete.store(false) and sender.send(()).
C34_IdleWorkerHasFlagTrueOutsideDispatch ==
    \A g \in Gens :
       (pc[g] = "recv" /\ chan[g] = 0) =>
           \/ complete[g]
           \/ g = gen /\ ctl \in {"resetTimer", "send"}

\* The worker has run the pass it was woken for and waits again, between
\* ticks.
C34_Witness ==
    /\ ctl = "idle"
    /\ pc[gen] = "recv"
    /\ chan[gen] = 0
    /\ complete[gen]
    /\ woken[gen]
    /\ storedSinceWake[gen]

\* C35: once started_draining is true the decode processor's queue holds the
\* requested number of frames at every drain: output_buffer.drain(..n) never
\* reaches past the end of the queue.
C35_NoUnderrun == status # "panic"

\* The queue as it stands in a call of n frames after the input loop: what
\* was queued before, then the output of every frame the call completed.
QueueAfterInput(n) ==
    SubSeq(Reference(1, fed + n), Len(emitted) + 1,
           Len(emitted) + Len(output_buffer)
               + frame_size * ((Len(input_buffer) + n) \div frame_size))

\* C38: a process call of n frames returns OutputsModified if and only if
\* the queue, after this call's input was consumed, holds at least n samples;
\* then exactly the first n queued samples are written out, in order, and
\* the rest stays queued; otherwise it returns ClearAllOutputs, writes
\* nothing and leaves the queue as the input loop left it.
C38_DrainIffEnoughQueued ==
    [][fed' # fed =>
          LET n == fed' - fed
              q == QueueAfterInput(n)
          IN  /\ (status' = "OutputsModified") <=> (Len(q) >= n)
              /\ Len(q) >= n =>
                     /\ emitted' = emitted \o TakeFirst(q, n)
                     /\ output_buffer' = DropFirst(q, n)
              /\ Len(q) < n =>
                     /\ status' = "ClearAllOutputs"
                     /\ emitted' = emitted
                     /\ output_buffer' = q]_vars

\* A call that found too little queued left a non-empty queue untouched,
\* after an earlier call had drained.
C38_Witness ==
    /\ status = "ClearAllOutputs"
    /\ output_buffer # <<>>
    /\ emitted # <<>>
    /\ fed > 0

\* The control thread waits for a guard of the current simulator that it
\* cannot take now.
ControlWaits ==
    \/ ctl \in {"tryWrite", "srcWrite", "migrate"} /\ ~TryWriteOk(gen)
    \/ ctl \in {"tryRead", "srcRead"} /\ ~TryReadOk(gen)

\* C36: the control thread, when it waits for the engine lock, holds no
\* guard itself and waits for a worker that is inside its pass, which waits
\* for nothing; a worker waiting for a wake holds no guard; and every system
\* that has started, update_simulation included, runs to its end.
C36_NoCircularWait ==
    /\ [](ControlWaits => /\ readers[gen] = 0
                          /\ writer[gen]
                          /\ pc[gen] = "pass")
    /\ [](\A g \in Gens : pc[g] # "pass" =>
              /\ writer[g] => (g = gen /\ ctl = "simCommit")
              /\ readers[g] > 0 => (g = gen /\ ctl \in {"direct", "load2", "dispatch"}))
    /\ (ctl # "idle") ~> (ctl = "idle")

\* The control thread waits at its read request while the worker is inside
\* a pass, in a tick after the first dispatch.
C36_Witness ==
    /\ ctl = "tryRead"
    /\ ~TryReadOk(gen)
    /\ pc[gen] = "pass"
    /\ woken[gen]

====
